---- MODULE Spec2Model ----
(***************************************************************************)
(* Model of the PKM core of the Mystical House knowledge base:             *)
(*   src/src/game/engine/pkmStore.ts  (the zustand store: commands and the *)
(*                                     in-memory mirror)                   *)
(*   src/src/lib/pkmStorage.ts        (the IndexedDB storage)              *)
(*   src/src/types/pkm.ts             (records and SPACED_REPETITION)      *)
(*                                                                         *)
(* Conventions.  Strings that the code inspects (title, content) are       *)
(* sequences of one-character strings.  A Date is [kind |-> "Date", t],    *)
(* null is [kind |-> "null"]; t counts days.  Floating-point ease factors  *)
(* are held in millionths (2.5 is 2500000), products are rounded down to   *)
(* the millionth; the rolling accuracy is an exact reduced fraction.       *)
(* A Partial<T> is a record carrying only the fields that are present.     *)
(* The ISO string that JSON.stringify writes for a Date is                 *)
(* [kind |-> "string", t]; a JSON document is held as JSON.parse reads it. *)
(* A command that rejects leaves the name of its error in `error`.         *)
(***************************************************************************)
EXTENDS Integers, Sequences, FiniteSets, TLC

VARIABLES
    notes,      \* PKMStore.notes     (in-memory mirror, an array)
    links,      \* PKMStore.links
    tags,       \* PKMStore.tags
    quests,     \* PKMStore.quests
    rooms,      \* PKMStore.rooms
    stats,      \* PKMStore.stats
    settings,   \* PKMStore.settings
    searchQuery,   \* PKMStore.searchQuery
    searchResults, \* PKMStore.searchResults
    dbNotes,    \* object store 'notes'  (keyPath id): id -> record
    dbLinks,    \* object store 'links'  (keyPath id): id -> record
    dbTags,     \* object store 'tags'   (keyPath id): id -> record
    dbQuests,   \* object store 'quests' (keyPath id): id -> record
    dbRooms,    \* object store 'rooms'  (keyPath id): id -> record
    dbStats,    \* object store 'stats'  (single record 'main', or null)
    dbSettings, \* object store 'settings' (single record 'main', or null)
    dbOpen,     \* PKMStorage.db is an open handle (TRUE) or null (FALSE)
    error,      \* the rejection of the command that completed last, or "none"
    clock,      \* the wall clock read by new Date() / Date.now(), in days
    nextNoteId, \* source of fresh note ids
    nextLinkId, \* source of fresh link ids
    successes,  \* history kept by the graduation steps: per note id, the
                \* number of its reviews rated other than 'again'
    exported,   \* the document the last exportData returned, or null
    calls,      \* the commands in flight, each suspended at a storage request,
                \* in the order in which their pending requests were issued
    last        \* the command that completed last, with the state before it

vars == <<notes, links, tags, quests, rooms, stats, settings, searchQuery,
          searchResults, dbNotes, dbLinks,
          dbTags, dbQuests, dbRooms, dbStats, dbSettings, dbOpen, error, clock,
          nextNoteId, nextLinkId, successes, exported, calls, last>>

----------------------------------------------------------------------------
(* Bounds of the model *)

MaxNotes == 2
MaxLinks == 2
MaxReviews == 2
SchedNotes == 1
SchedReviews == 4
MaxInterval == 40
MasteryReviews == 22
MaxDenominator == 10
MaxClock == 2
TimeReviews == 1
MaxTags == 1
SnapReviews == 1
SnapLinks == 1
JournalLength == 13

----------------------------------------------------------------------------
(* Generic helpers *)

Max(a, b) == IF a >= b THEN a ELSE b
Min(a, b) == IF a <= b THEN a ELSE b

RECURSIVE Gcd(_, _)
Gcd(a, b) == IF b = 0 THEN a ELSE Gcd(b, a % b)

SeqToSet(s) == {s[i] : i \in 1..Len(s)}

\* Array.prototype.filter is SelectSeq

\* Array.prototype.map
MapSeq(s, F(_)) == [i \in 1..Len(s) |-> F(s[i])]

\* a slice that ends one element late
Slice0_Inclusive(s, n) == SubSeq(s, 1, Min(n + 1, Len(s)))

\* Array.prototype.slice(0, n)
Slice0(s, n) == SubSeq(s, 1, Min(n, Len(s)))

\* object spread {...a, ...b}: the fields of b override those of a
Spread(a, b) ==
    [f \in (DOMAIN a) \cup (DOMAIN b) |-> IF f \in DOMAIN b THEN b[f] ELSE a[f]]

Has(r, f) == f \in DOMAIN r

NULL == [kind |-> "null"]
Date(t) == [kind |-> "Date", t |-> t]

\* IDBObjectStore.put: write under the record's key
Put(store, rec) ==
    [k \in (DOMAIN store) \cup {rec.id} |-> IF k = rec.id THEN rec ELSE store[k]]

\* IDBObjectStore.delete
Del(store, key) == [k \in (DOMAIN store) \ {key} |-> store[k]]

\* the empty object store
EmptyStore == [k \in {} |-> NULL]

\* IDBObjectStore.getAll(): the records in ascending key order
RECURSIVE SortedKeys(_)
SortedKeys(S) ==
    IF S = {} THEN <<>>
    ELSE LET m == CHOOSE x \in S : \A y \in S \ {x} : x <= y
         IN  <<m>> \o SortedKeys(S \ {m})

GetAll(store) == LET ks == SortedKeys(DOMAIN store)
                 IN  [i \in 1..Len(ks) |-> store[ks[i]]]

----------------------------------------------------------------------------
(* Strings *)

\* the whitespace characters of /\s/ and of String.prototype.trim that the
\* inputs use: space, tab and line feed
IsSpace(c) == c \in {" ", "\t", "\n"}

\* String.prototype.split(/\s+/): the pieces between maximal runs of
\* whitespace; a leading or trailing run leaves an empty piece, and the
\* empty string splits into one empty piece.
RECURSIVE SplitFrom(_, _, _, _)
SplitFrom(s, i, cur, inSep) ==
    IF i > Len(s) THEN <<cur>>
    ELSE IF IsSpace(s[i])
         THEN IF inSep THEN SplitFrom(s, i + 1, cur, TRUE)
              ELSE <<cur>> \o SplitFrom(s, i + 1, <<>>, TRUE)
         ELSE SplitFrom(s, i + 1, Append(cur, s[i]), FALSE)

SplitWhitespace(s) == SplitFrom(s, 1, <<>>, FALSE)

NonEmpty(word) == Len(word) > 0

\* content.split(/\s+/).filter(word => word.length > 0).length
WordCount(content) == Len(SelectSeq(SplitWhitespace(content), NonEmpty))

\* Math.ceil(content.length / 200)
ReadingTime(content) == (Len(content) + 199) \div 200

\* String.prototype.split(' '): the pieces between single spaces
RECURSIVE SplitOnSpace(_, _, _)
SplitOnSpace(s, i, cur) ==
    IF i > Len(s) THEN <<cur>>
    ELSE IF s[i] = " " THEN <<cur>> \o SplitOnSpace(s, i + 1, <<>>)
    ELSE SplitOnSpace(s, i + 1, Append(cur, s[i]))

\* String.prototype.trim
RECURSIVE TrimStart(_)
TrimStart(s) ==
    IF s = <<>> THEN s
    ELSE IF IsSpace(Head(s)) THEN TrimStart(Tail(s))
    ELSE s

RECURSIVE TrimEnd(_)
TrimEnd(s) ==
    IF s = <<>> THEN s
    ELSE IF IsSpace(s[Len(s)]) THEN TrimEnd(SubSeq(s, 1, Len(s) - 1))
    ELSE s

Trim(s) == TrimEnd(TrimStart(s))

\* String.prototype.toLowerCase over the letters the inputs use
LowerChar(c) ==
    IF c = "A" THEN "a"
    ELSE IF c = "B" THEN "b"
    ELSE IF c = "C" THEN "c"
    ELSE c

ToLowerCase(s) == [i \in 1..Len(s) |-> LowerChar(s[i])]

\* String.prototype.includes
Includes(text, term) ==
    \E i \in 1..(Len(text) - Len(term) + 1) :
        SubSeq(text, i, i + Len(term) - 1) = term

\* Array.prototype.join(' ')
RECURSIVE JoinSpace(_)
JoinSpace(words) ==
    IF words = <<>> THEN <<>>
    ELSE IF Len(words) = 1 THEN words[1]
    ELSE words[1] \o <<" ">> \o JoinSpace(Tail(words))

UNTITLED == <<"U", "n", "t", "i", "t", "l", "e", "d", " ", "N", "o", "t", "e">>

----------------------------------------------------------------------------
(* SPACED_REPETITION (types/pkm.ts).  Ease factors in millionths,          *)
(* multipliers in tenths, intervals in days.                               *)

INITIAL_EASE == 2500000
MIN_EASE == 1300000
MAX_EASE == 3000000
EASY_MULTIPLIER == 13
GOOD_MULTIPLIER == 10
HARD_MULTIPLIER == 8
AGAIN_MULTIPLIER == 5
INITIAL_INTERVAL == 1
GRADUATING_INTERVAL == 4

Qualities == {"again", "hard", "good", "easy"}

\* easeFactor * multiplier, to the millionth
EaseTimes(ease, mult) == (ease * mult) \div 10

\* Math.floor(interval * multiplier)
FloorTimes(interval, mult) == (interval * mult) \div 10

\* Math.floor(interval * multiplier * easeFactor)
FloorTimesEase(interval, mult, ease) == (interval * mult * ease) \div 10000000

----------------------------------------------------------------------------
(* Defaults (pkmStore.ts) *)

defaultSettings ==
    [autoSave |-> TRUE, defaultDomain |-> "personal", reviewReminders |-> TRUE,
     dailyReviewGoal |-> 10, theme |-> "retro_snes", soundEffects |-> TRUE,
     showBacklinks |-> TRUE, autoLinkSimilar |-> FALSE]

\* averageReviewAccuracy 0 is the fraction 0/1
defaultStats ==
    [totalNotes |-> 0, collectedNotes |-> 0, totalLinks |-> 0, reviewStreak |-> 0,
     wisdomPoints |-> 0, completedQuests |-> 0,
     averageReviewAccuracy |-> [num |-> 0, den |-> 1],
     mostProductiveDomain |-> "personal", recentActivity |-> <<>>]

\* the one default room, by the fields the commands read
defaultRooms ==
    <<[id |-> "main_hall", domain |-> "personal", isUnlocked |-> TRUE]>>

----------------------------------------------------------------------------
(* The state the commands act on, as one record, so that a command that    *)
(* awaits other commands (createLink awaits updateNote and updateStats) is *)
(* the composition of their effects.                                       *)

Cur == [notes |-> notes, links |-> links, tags |-> tags, quests |-> quests,
        rooms |-> rooms, stats |-> stats, settings |-> settings,
        searchQuery |-> searchQuery, searchResults |-> searchResults,
        dbNotes |-> dbNotes, dbLinks |-> dbLinks, dbTags |-> dbTags,
        dbQuests |-> dbQuests, dbRooms |-> dbRooms, dbStats |-> dbStats,
        dbSettings |-> dbSettings, dbOpen |-> dbOpen, error |-> "none"]

\* Array.prototype.findIndex(note => note.id === id); 0 stands for -1
FindIndex(arr, id) ==
    IF \E i \in 1..Len(arr) : arr[i].id = id
    THEN CHOOSE i \in 1..Len(arr) :
             arr[i].id = id /\ \A j \in 1..(i - 1) : arr[j].id # id
    ELSE 0

\* JavaScript truthiness of an optional string field
Truthy(r, f) == Has(r, f) /\ Len(r[f]) > 0

----------------------------------------------------------------------------
(* PKMStorage (lib/pkmStorage.ts) *)

\* the errors a storage operation rejects with
NOT_INITIALIZED == "Database not initialized"
CONSTRAINT_ERROR == "ConstraintError"

\* a command that rejects with e at the state W it has reached
Throw(W, e) == [W EXCEPT !.error = e]

Failed(W) == W.error # "none"

\* an ensureDB that hands out a handle it does not have
ensureDB_Unchecked(W) == TRUE

\* ensureDB returns the handle, and throws when it is null
ensureDB(W) == W.dbOpen

\* IDBObjectStore.add succeeds only when the key is not yet in the store
AddAccepts(store, rec) == rec.id \notin DOMAIN store

Storage_createNote(db, note) == Put(db, note)

Storage_updateNote(db, note) == Put(db, note)

Storage_createLink(db, link) == Put(db, link)

Storage_deleteLink(db, id) == Del(db, id)

Storage_updateStats(st) == Spread(st, [id |-> "main"])

\* linksStore.index('source').getAll(id)
LinksBySource(db, id) == {k \in DOMAIN db : db[k].sourceId = id}

\* linksStore.index('target').getAll(id)
LinksByTarget(db, id) == {k \in DOMAIN db : db[k].targetId = id}

\* a deleteNote that scans the source index only
Storage_deleteNote_SourceOnly(W, id) ==
    [W EXCEPT !.dbNotes = Del(W.dbNotes, id),
              !.dbLinks = [k \in (DOMAIN W.dbLinks) \ LinksBySource(W.dbLinks, id)
                              |-> W.dbLinks[k]]]

\* deleteNote: the note record, then the links found through the source
\* index, then the links found through the target index
Storage_deleteNote(W, id) ==
    LET afterSource == [k \in (DOMAIN W.dbLinks) \ LinksBySource(W.dbLinks, id)
                           |-> W.dbLinks[k]]
        afterTarget == [k \in (DOMAIN afterSource) \ LinksByTarget(afterSource, id)
                           |-> afterSource[k]]
    IN  [W EXCEPT !.dbNotes = Del(W.dbNotes, id), !.dbLinks = afterTarget]

Storage_createTag(db, tag) == Put(db, tag)

\* IDBKeyRange.upperBound(now).includes(key) for a Date now: keys compare by
\* type first (Number < Date < String), so a Date key is in the range when it
\* is not later than now and a string key never is
InUpperBound(key, now) == key.kind = "Date" /\ key.t <= now

\* the records of an index over reviewData.nextReview whose key is a valid
\* key inside the range, in index order (by key, then by primary key)
RECURSIVE IndexOrder(_, _)
IndexOrder(ids, db) ==
    IF ids = {} THEN <<>>
    ELSE LET m == CHOOSE x \in ids : \A y \in ids :
                      \/ db[x].reviewData.nextReview.t < db[y].reviewData.nextReview.t
                      \/ /\ db[x].reviewData.nextReview.t
                              = db[y].reviewData.nextReview.t
                         /\ x <= y
         IN  <<db[m]>> \o IndexOrder(ids \ {m}, db)

Storage_getNotesDueForReview(db, now) ==
    LET inRange == {k \in DOMAIN db :
                       InUpperBound(db[k].reviewData.nextReview, now)}
    IN  SelectSeq(IndexOrder(inRange, db),
                  LAMBDA note : note.reviewData.status # "mastered")

\* Date.prototype.toJSON: JSON.stringify writes a Date as its ISO string, and
\* JSON.parse reads that back as a string
Iso(d) == IF d.kind = "Date" THEN [kind |-> "string", t |-> d.t] ELSE d

\* JSON.parse(JSON.stringify(x)) of the records
JsonNote(note) ==
    [note EXCEPT !.createdAt = Iso(@),
                 !.updatedAt = Iso(@),
                 !.reviewData.nextReview = Iso(@),
                 !.reviewData.lastReviewed = Iso(@)]

JsonLink(link) == [link EXCEPT !.createdAt = Iso(@)]

JsonTag(tag) == [tag EXCEPT !.createdAt = Iso(@)]

JsonActivity(a) == [a EXCEPT !.timestamp = Iso(@)]

JsonStats(st) ==
    IF st = NULL THEN NULL
    ELSE [st EXCEPT !.recentActivity = MapSeq(@, JsonActivity)]

\* the collections exportData reads, as JSON.parse reads them back
Snapshot(W) ==
    [notes |-> MapSeq(GetAll(W.dbNotes), JsonNote),
     links |-> MapSeq(GetAll(W.dbLinks), JsonLink),
     tags |-> MapSeq(GetAll(W.dbTags), JsonTag),
     quests |-> GetAll(W.dbQuests),
     rooms |-> GetAll(W.dbRooms),
     stats |-> JsonStats(W.dbStats),
     settings |-> W.dbSettings]

\* the document exportData returns
Storage_exportData(W) ==
    Spread(Snapshot(W), [version |-> "1.0", timestamp |-> Iso(Date(clock))])

Storage_clearAllData(W) ==
    [W EXCEPT !.dbNotes = EmptyStore, !.dbLinks = EmptyStore,
              !.dbTags = EmptyStore, !.dbQuests = EmptyStore,
              !.dbRooms = EmptyStore, !.dbStats = NULL, !.dbSettings = NULL]

\* a loop of store.put over recs: a record replaces an earlier one of its key
RECURSIVE PutAll(_, _)
PutAll(store, recs) ==
    IF recs = <<>> THEN [ok |-> TRUE, store |-> store]
    ELSE PutAll(Put(store, Head(recs)), Tail(recs))

\* the loop of store.add over recs: it stops at the first key already present
RECURSIVE AddAll(_, _)
AddAll(store, recs) ==
    IF recs = <<>> THEN [ok |-> TRUE, store |-> store]
    ELSE IF ~AddAccepts(store, Head(recs)) THEN [ok |-> FALSE, store |-> store]
    ELSE AddAll(Put(store, Head(recs)), Tail(recs))

\* importData: clearAllData in a transaction of its own, then one transaction
\* of adds; a rejected add aborts that transaction, which undoes its writes
Storage_importData(W, data) ==
    IF ~ensureDB(W) THEN Throw(W, NOT_INITIALIZED)
    ELSE LET C == Storage_clearAllData(W)
             n == AddAll(C.dbNotes, data.notes)
             l == AddAll(C.dbLinks, data.links)
             t == AddAll(C.dbTags, data.tags)
             q == AddAll(C.dbQuests, data.quests)
             r == AddAll(C.dbRooms, data.rooms)
         IN  IF ~(n.ok /\ l.ok /\ t.ok /\ q.ok /\ r.ok)
             THEN Throw(C, CONSTRAINT_ERROR)
             ELSE [C EXCEPT
                      !.dbNotes = n.store,
                      !.dbLinks = l.store,
                      !.dbTags = t.store,
                      !.dbQuests = q.store,
                      !.dbRooms = r.store,
                      !.dbStats = IF data.stats = NULL THEN NULL
                                  ELSE Spread(data.stats, [id |-> "main"]),
                      !.dbSettings = IF data.settings = NULL THEN NULL
                                     ELSE Spread(data.settings, [id |-> "main"])]

\* `${note.title} ${note.content} ${note.tags.join(' ')}`.toLowerCase()
SearchableText(note) ==
    ToLowerCase(note.title \o <<" ">> \o note.content \o <<" ">>
                \o JoinSpace(note.tags))

\* query.toLowerCase().split(' ').filter(term => term.length > 0)
SearchTerms(query) == SelectSeq(SplitOnSpace(ToLowerCase(query), 1, <<>>), NonEmpty)

Storage_searchNotes(db, query) ==
    LET searchTerms == SearchTerms(query)
    IN  SelectSeq(GetAll(db),
            LAMBDA note :
                \A i \in 1..Len(searchTerms) :
                    Includes(SearchableText(note), searchTerms[i]))

\* pkmStorage.init(): the handle is set when indexedDB.open succeeds; when it
\* fails the promise rejects and the handle stays as it was
Storage_init(W, opens) ==
    IF opens THEN [W EXCEPT !.dbOpen = TRUE]
    ELSE Throw(W, "open failed")

\* pkmStorage.close()
Storage_close(W) == [W EXCEPT !.dbOpen = FALSE]

\* the data operations of PKMStorage, by name
StorageWrites ==
    {"createNote", "updateNote", "deleteNote", "createLink", "deleteLink",
     "createTag", "updateStats", "importData"}

StorageReads ==
    {"getNote", "getAllNotes", "getNotesDueForReview", "searchNotes",
     "getStats", "exportData"}

\* an add of rec to the store held in field f
StorageAdd(W, f, rec) ==
    IF ~AddAccepts(W[f], rec) THEN Throw(W, CONSTRAINT_ERROR)
    ELSE [W EXCEPT ![f] = Put(W[f], rec)]

\* one data operation on the record rec (or on its id): each begins with
\* ensureDB; the reads leave the database as it is
Storage_call(W, op, rec, data) ==
    IF ~ensureDB(W) THEN Throw(W, NOT_INITIALIZED)
    ELSE CASE op = "createNote" -> StorageAdd(W, "dbNotes", rec)
           [] op = "updateNote" ->
                  [W EXCEPT !.dbNotes = Storage_updateNote(W.dbNotes, rec)]
           [] op = "deleteNote" -> Storage_deleteNote(W, rec.id)
           [] op = "createLink" -> StorageAdd(W, "dbLinks", rec)
           [] op = "deleteLink" ->
                  [W EXCEPT !.dbLinks = Storage_deleteLink(W.dbLinks, rec.id)]
           [] op = "createTag" -> StorageAdd(W, "dbTags", rec)
           [] op = "updateStats" ->
                  [W EXCEPT !.dbStats = Storage_updateStats(defaultStats)]
           [] op = "importData" -> Storage_importData(W, data)
           [] OTHER -> W

----------------------------------------------------------------------------
(* usePKMStore (game/engine/pkmStore.ts) *)

\* initializePKM; opens is the outcome of indexedDB.open in pkmStorage.init().
\* The catch branch sets rooms, stats and settings only.
initializePKM(W, opens) ==
    IF ~opens
    THEN [W EXCEPT !.rooms = defaultRooms, !.stats = defaultStats,
                   !.settings = defaultSettings]
    ELSE [W EXCEPT
             !.dbOpen = TRUE,
             !.notes = GetAll(W.dbNotes),
             !.links = GetAll(W.dbLinks),
             !.tags = GetAll(W.dbTags),
             !.quests = GetAll(W.dbQuests),
             !.rooms = IF Len(GetAll(W.dbRooms)) > 0 THEN GetAll(W.dbRooms)
                       ELSE defaultRooms,
             !.stats = IF W.dbStats = NULL THEN defaultStats ELSE W.dbStats,
             !.settings = IF W.dbSettings = NULL THEN defaultSettings
                          ELSE W.dbSettings]

\* importData awaits the storage import and then reloads
importData(W, data, opens) ==
    LET W1 == Storage_importData(W, data)
    IN  IF Failed(W1) THEN W1 ELSE initializePKM(W1, opens)

searchNotes(W, query) ==
    IF Trim(query) = <<>>
    THEN [W EXCEPT !.searchQuery = <<>>, !.searchResults = <<>>]
    ELSE IF ~ensureDB(W) THEN Throw(W, NOT_INITIALIZED)
    ELSE [W EXCEPT !.searchQuery = query,
                   !.searchResults = Storage_searchNotes(W.dbNotes, query)]

\* a fresh tag id, standing for tag_<Date.now()>_<random>
FreshTagId(W) ==
    1 + Max(Len(W.tags), Cardinality(DOMAIN W.dbTags))

createTag(W, name, color) ==
    LET newTag == [id |-> FreshTagId(W), name |-> name, color |-> color,
                   description |-> <<>>, noteCount |-> 0,
                   createdAt |-> Date(clock)]
    IN  IF ~ensureDB(W) THEN Throw(W, NOT_INITIALIZED)
        ELSE IF ~AddAccepts(W.dbTags, newTag) THEN Throw(W, CONSTRAINT_ERROR)
        ELSE [W EXCEPT !.dbTags = Storage_createTag(W.dbTags, newTag),
                       !.tags = Append(W.tags, newTag)]

Storage_updateTag(db, tag) == Put(db, tag)

updateTag(W, id, updates) ==
    LET tagIndex == FindIndex(W.tags, id)
    IN  IF tagIndex = 0 THEN W
        ELSE IF ~ensureDB(W) THEN Throw(W, NOT_INITIALIZED)
        ELSE LET updatedTag == Spread(W.tags[tagIndex], updates)
             IN  [W EXCEPT
                     !.dbTags = Storage_updateTag(W.dbTags, updatedTag),
                     !.tags = [i \in 1..Len(W.tags) |->
                                  IF W.tags[i].id = id THEN updatedTag
                                  ELSE W.tags[i]]]

getNotesDueForReview(W) == Storage_getNotesDueForReview(W.dbNotes, clock)

updateStats(W, updates) ==
    LET newStats == Spread(W.stats, updates)
    IN  IF ~ensureDB(W) THEN Throw(W, NOT_INITIALIZED)
        ELSE [W EXCEPT !.dbStats = Storage_updateStats(newStats),
                       !.stats = newStats]

\* the activity entry prepended by createNote and reviewNote
Activity(type, title, points) ==
    [id |-> clock, type |-> type, timestamp |-> Date(clock),
     description |-> title, points |-> points]

\* the note built by createNote from noteData under a fresh id; rnd is the
\* Math.random() draw of its position
BuildNote(id, noteData, rnd) ==
    LET content == IF Truthy(noteData, "content") THEN noteData.content ELSE <<>>
    IN  [id |-> id,
         title |-> IF Truthy(noteData, "title") THEN noteData.title ELSE UNTITLED,
         content |-> content,
         type |-> IF Has(noteData, "type") THEN noteData.type ELSE "concept",
         domain |-> IF Has(noteData, "domain") THEN noteData.domain
                    ELSE settings.defaultDomain,
         tags |-> IF Has(noteData, "tags") THEN noteData.tags ELSE <<>>,
         createdAt |-> Date(clock),
         updatedAt |-> Date(clock),
         position |-> IF Has(noteData, "position") THEN noteData.position ELSE rnd,
         isCollected |-> Has(noteData, "isCollected") /\ noteData.isCollected,
         reviewData |->
             [status |-> "new",
              easeFactor |-> INITIAL_EASE,
              interval |-> INITIAL_INTERVAL,
              nextReview |-> Date(clock + INITIAL_INTERVAL),
              reviewCount |-> 0,
              lastReviewed |-> NULL,
              correctStreak |-> 0,
              totalReviews |-> 0],
         metadata |->
             [wordCount |-> WordCount(content),
              readingTime |-> ReadingTime(content),
              links |-> <<>>,
              backlinks |-> <<>>,
              attachments |-> <<>>,
              importance |-> 3]]

createNote(W, noteData, rnd) ==
    LET newNote == BuildNote(nextNoteId, noteData, rnd)
    IN  IF ~ensureDB(W) THEN Throw(W, NOT_INITIALIZED)
        ELSE IF ~AddAccepts(W.dbNotes, newNote) THEN Throw(W, CONSTRAINT_ERROR)
        ELSE LET W1 == [W EXCEPT !.dbNotes = Storage_createNote(W.dbNotes, newNote),
                                 !.notes = Append(W.notes, newNote)]
                 updatedStats ==
                     [W1.stats EXCEPT
                         !.totalNotes = W1.stats.totalNotes + 1,
                         !.recentActivity =
                             <<Activity("note_created", newNote.title, 10)>>
                             \o Slice0(W1.stats.recentActivity, 9)]
             IN  updateStats(W1, updatedStats)

\* an updateNote in which the fields of updates are spread last
UpdatedNote_UpdatesLast(note, updates) ==
    Spread(Spread(note,
                  [updatedAt |-> Date(clock),
                   metadata |->
                       [note.metadata EXCEPT
                           !.wordCount = IF Truthy(updates, "content")
                                         THEN WordCount(updates.content)
                                         ELSE note.metadata.wordCount,
                           !.readingTime = IF Truthy(updates, "content")
                                           THEN ReadingTime(updates.content)
                                           ELSE note.metadata.readingTime]]),
           updates)

\* the record updateNote writes: the note, overridden by updates, overridden
\* by updatedAt and by a metadata object rebuilt from the stored note
UpdatedNote(note, updates) ==
    Spread(Spread(note, updates),
           [updatedAt |-> Date(clock),
            metadata |->
                [note.metadata EXCEPT
                    !.wordCount = IF Truthy(updates, "content")
                                  THEN WordCount(updates.content)
                                  ELSE note.metadata.wordCount,
                    !.readingTime = IF Truthy(updates, "content")
                                    THEN ReadingTime(updates.content)
                                    ELSE note.metadata.readingTime]])

updateNote(W, id, updates) ==
    LET noteIndex == FindIndex(W.notes, id)
    IN  IF noteIndex = 0 THEN W
        ELSE IF ~ensureDB(W) THEN Throw(W, NOT_INITIALIZED)
        ELSE LET updatedNote == UpdatedNote(W.notes[noteIndex], updates)
             IN  [W EXCEPT
                     !.dbNotes = Storage_updateNote(W.dbNotes, updatedNote),
                     !.notes = [i \in 1..Len(W.notes) |->
                                   IF W.notes[i].id = id THEN updatedNote
                                   ELSE W.notes[i]]]

deleteNote(W, id) ==
    LET W1 == Storage_deleteNote(W, id)
        W2 == [W1 EXCEPT
                  !.notes = SelectSeq(W1.notes, LAMBDA note : note.id # id),
                  !.links = SelectSeq(W1.links,
                                LAMBDA link : link.sourceId # id /\ link.targetId # id)]
    IN  IF ~ensureDB(W) THEN Throw(W, NOT_INITIALIZED)
        ELSE updateStats(W2, [W2.stats EXCEPT
                                 !.totalNotes = Max(0, W2.stats.totalNotes - 1)])

\* the NoteLink built by createLink (no context given)
NewLink(sourceId, targetId, type) ==
    [id |-> nextLinkId, sourceId |-> sourceId, targetId |-> targetId,
     type |-> type, strength |-> 5, createdAt |-> Date(clock)]

collectNote(W, id) ==
    LET ni == FindIndex(W.notes, id)
    IN  IF ni = 0 THEN W
        ELSE IF W.notes[ni].isCollected THEN W
        ELSE IF ~ensureDB(W) THEN Throw(W, NOT_INITIALIZED)
        ELSE LET updatedNote == [W.notes[ni] EXCEPT !.isCollected = TRUE]
                 W1 == [W EXCEPT
                           !.dbNotes = Storage_updateNote(W.dbNotes, updatedNote),
                           !.notes = [i \in 1..Len(W.notes) |->
                                         IF W.notes[i].id = id THEN updatedNote
                                         ELSE W.notes[i]]]
             IN  updateStats(W1,
                     [W1.stats EXCEPT
                         !.collectedNotes = W1.stats.collectedNotes + 1,
                         !.wisdomPoints = W1.stats.wisdomPoints + 5])

\* [...list.filter(l => l !== id), id]
WithId(list, id) == Append(SelectSeq(list, LAMBDA l : l # id), id)

\* list.filter(l => l !== id)
WithoutId(list, id) == SelectSeq(list, LAMBDA l : l # id)

createLink(W, sourceId, targetId, type) ==
    LET newLink == NewLink(sourceId, targetId, type)
    IN  IF ~ensureDB(W) THEN Throw(W, NOT_INITIALIZED)
        ELSE IF ~AddAccepts(W.dbLinks, newLink) THEN Throw(W, CONSTRAINT_ERROR)
        ELSE
        LET W1 == [W EXCEPT !.dbLinks = Storage_createLink(W.dbLinks, newLink),
                            !.links = Append(W.links, newLink)]
            si == FindIndex(W1.notes, sourceId)
            ti == FindIndex(W1.notes, targetId)
            W2 == IF si # 0
                  THEN updateNote(W1, sourceId,
                           [metadata |->
                               [W1.notes[si].metadata EXCEPT
                                   !.links = WithId(W1.notes[si].metadata.links,
                                                    targetId)]])
                  ELSE W1
            W3 == IF ti # 0
                  THEN updateNote(W2, targetId,
                           [metadata |->
                               [W1.notes[ti].metadata EXCEPT
                                   !.backlinks = WithId(W1.notes[ti].metadata.backlinks,
                                                        sourceId)]])
                  ELSE W2
        IN  updateStats(W3, [W3.stats EXCEPT
                                !.totalLinks = W3.stats.totalLinks + 1])

\* the error of a storage request that fails (its transaction errors or
\* aborts, as on QuotaExceededError)
WRITE_ERROR == "WriteError"

\* createLink when the storage request named by rejects fails: the put of
\* the source note, the put of the target note or the put of the stats;
\* "none" is createLink
createLink_Rejecting(W, sourceId, targetId, type, rejects) ==
    LET newLink == NewLink(sourceId, targetId, type)
    IN  IF ~ensureDB(W) THEN Throw(W, NOT_INITIALIZED)
        ELSE IF ~AddAccepts(W.dbLinks, newLink) THEN Throw(W, CONSTRAINT_ERROR)
        ELSE
        LET W1 == [W EXCEPT !.dbLinks = Storage_createLink(W.dbLinks, newLink),
                            !.links = Append(W.links, newLink)]
            si == FindIndex(W1.notes, sourceId)
            ti == FindIndex(W1.notes, targetId)
            W2 == IF si # 0
                  THEN updateNote(W1, sourceId,
                           [metadata |->
                               [W1.notes[si].metadata EXCEPT
                                   !.links = WithId(W1.notes[si].metadata.links,
                                                    targetId)]])
                  ELSE W1
            W3 == IF ti # 0
                  THEN updateNote(W2, targetId,
                           [metadata |->
                               [W1.notes[ti].metadata EXCEPT
                                   !.backlinks = WithId(W1.notes[ti].metadata.backlinks,
                                                        sourceId)]])
                  ELSE W2
        IN  IF si # 0 /\ rejects = "source" THEN Throw(W1, WRITE_ERROR)
            ELSE IF ti # 0 /\ rejects = "target" THEN Throw(W2, WRITE_ERROR)
            ELSE IF rejects = "stats" THEN Throw(W3, WRITE_ERROR)
            ELSE updateStats(W3, [W3.stats EXCEPT
                                     !.totalLinks = W3.stats.totalLinks + 1])

deleteLink(W, id) ==
    LET li == FindIndex(W.links, id)
    IN  IF li = 0 THEN W
        ELSE IF ~ensureDB(W) THEN Throw(W, NOT_INITIALIZED)
        ELSE
        LET link == W.links[li]
            W1 == [W EXCEPT !.dbLinks = Storage_deleteLink(W.dbLinks, id),
                            !.links = SelectSeq(W.links, LAMBDA l : l.id # id)]
            si == FindIndex(W.notes, link.sourceId)
            ti == FindIndex(W.notes, link.targetId)
            W2 == IF si # 0
                  THEN updateNote(W1, link.sourceId,
                           [metadata |->
                               [W.notes[si].metadata EXCEPT
                                   !.links = WithoutId(W.notes[si].metadata.links,
                                                       link.targetId)]])
                  ELSE W1
            W3 == IF ti # 0
                  THEN updateNote(W2, link.targetId,
                           [metadata |->
                               [W.notes[ti].metadata EXCEPT
                                   !.backlinks =
                                       WithoutId(W.notes[ti].metadata.backlinks,
                                                 link.sourceId)]])
                  ELSE W2
        IN  updateStats(W3, [W3.stats EXCEPT
                                !.totalLinks = Max(0, W3.stats.totalLinks - 1)])

----------------------------------------------------------------------------
(* Spaced repetition: reviewNote *)

\* an ease factor update that does not clamp
NewEaseFactor_Unclamped(reviewData, quality) ==
    CASE quality = "again" -> EaseTimes(reviewData.easeFactor, AGAIN_MULTIPLIER)
      [] quality = "hard" -> EaseTimes(reviewData.easeFactor, HARD_MULTIPLIER)
      [] quality = "good" -> reviewData.easeFactor
      [] quality = "easy" -> EaseTimes(reviewData.easeFactor, EASY_MULTIPLIER)

\* the switch on quality, newEaseFactor
NewEaseFactor(reviewData, quality) ==
    CASE quality = "again" ->
            Max(MIN_EASE, EaseTimes(reviewData.easeFactor, AGAIN_MULTIPLIER))
      [] quality = "hard" ->
            Max(MIN_EASE, EaseTimes(reviewData.easeFactor, HARD_MULTIPLIER))
      [] quality = "good" -> reviewData.easeFactor
      [] quality = "easy" ->
            Min(MAX_EASE, EaseTimes(reviewData.easeFactor, EASY_MULTIPLIER))

\* an interval update that scales the interval on 'again' instead of resetting it
NewInterval_AgainScales(reviewData, quality) ==
    CASE quality = "again" ->
            Max(1, FloorTimes(reviewData.interval, AGAIN_MULTIPLIER))
      [] quality = "hard" ->
            Max(1, FloorTimes(reviewData.interval, HARD_MULTIPLIER))
      [] quality = "good" ->
            Max(GRADUATING_INTERVAL,
                FloorTimesEase(reviewData.interval, GOOD_MULTIPLIER,
                               reviewData.easeFactor))
      [] quality = "easy" ->
            FloorTimesEase(reviewData.interval, EASY_MULTIPLIER,
                           reviewData.easeFactor)

\* an interval update that multiplies by the ease factor just computed
NewInterval_FromNewEase(reviewData, quality) ==
    CASE quality = "again" -> INITIAL_INTERVAL
      [] quality = "hard" ->
            Max(1, FloorTimes(reviewData.interval, HARD_MULTIPLIER))
      [] quality = "good" ->
            Max(GRADUATING_INTERVAL,
                FloorTimesEase(reviewData.interval, GOOD_MULTIPLIER,
                               NewEaseFactor(reviewData, quality)))
      [] quality = "easy" ->
            FloorTimesEase(reviewData.interval, EASY_MULTIPLIER,
                           NewEaseFactor(reviewData, quality))

\* an interval update without the graduating floor on 'good'
NewInterval_GoodUnfloored(reviewData, quality) ==
    CASE quality = "again" -> INITIAL_INTERVAL
      [] quality = "hard" ->
            Max(1, FloorTimes(reviewData.interval, HARD_MULTIPLIER))
      [] quality = "good" ->
            FloorTimesEase(reviewData.interval, GOOD_MULTIPLIER,
                           reviewData.easeFactor)
      [] quality = "easy" ->
            FloorTimesEase(reviewData.interval, EASY_MULTIPLIER,
                           reviewData.easeFactor)

\* an interval update whose 'hard' branch lacks the floor of one day
NewInterval_HardUnclamped(reviewData, quality) ==
    CASE quality = "again" -> INITIAL_INTERVAL
      [] quality = "hard" -> FloorTimes(reviewData.interval, HARD_MULTIPLIER)
      [] quality = "good" ->
            Max(GRADUATING_INTERVAL,
                FloorTimesEase(reviewData.interval, GOOD_MULTIPLIER,
                               reviewData.easeFactor))
      [] quality = "easy" ->
            FloorTimesEase(reviewData.interval, EASY_MULTIPLIER,
                           reviewData.easeFactor)

\* the switch on quality, newInterval
NewInterval(reviewData, quality) ==
    CASE quality = "again" -> INITIAL_INTERVAL
      [] quality = "hard" ->
            Max(1, FloorTimes(reviewData.interval, HARD_MULTIPLIER))
      [] quality = "good" ->
            Max(GRADUATING_INTERVAL,
                FloorTimesEase(reviewData.interval, GOOD_MULTIPLIER,
                               reviewData.easeFactor))
      [] quality = "easy" ->
            FloorTimesEase(reviewData.interval, EASY_MULTIPLIER,
                           reviewData.easeFactor)

\* review data whose nextReview is counted from the interval before the review
UpdatedReviewData_OldInterval(reviewData, quality) ==
    LET newInterval == NewInterval(reviewData, quality)
    IN  [status |-> IF quality = "again" THEN "learning"
                    ELSE IF reviewData.reviewCount >= 20 THEN "mastered"
                    ELSE "reviewing",
         easeFactor |-> NewEaseFactor(reviewData, quality),
         interval |-> newInterval,
         nextReview |-> Date(clock + reviewData.interval),
         reviewCount |-> reviewData.reviewCount + 1,
         lastReviewed |-> Date(clock),
         correctStreak |-> IF quality = "again" THEN 0
                           ELSE reviewData.correctStreak + 1,
         totalReviews |-> reviewData.totalReviews + 1]

\* a status that consults the review count after the increment
NewStatus_PostCount(reviewData, quality) ==
    IF quality = "again" THEN "learning"
    ELSE IF reviewData.reviewCount + 1 >= 20 THEN "mastered"
    ELSE "reviewing"

NewStatus(reviewData, quality) ==
    IF quality = "again" THEN "learning"
    ELSE IF reviewData.reviewCount >= 20 THEN "mastered"
    ELSE "reviewing"

UpdatedReviewData(reviewData, quality) ==
    LET newInterval == NewInterval(reviewData, quality)
    IN  [status |-> NewStatus(reviewData, quality),
         easeFactor |-> NewEaseFactor(reviewData, quality),
         interval |-> newInterval,
         nextReview |-> Date(clock + newInterval),
         reviewCount |-> reviewData.reviewCount + 1,
         lastReviewed |-> Date(clock),
         correctStreak |-> IF quality = "again" THEN 0
                           ELSE reviewData.correctStreak + 1,
         totalReviews |-> reviewData.totalReviews + 1]

\* accuracy contribution of a review, in tenths
Accuracy(quality) ==
    IF quality = "again" THEN 0
    ELSE IF quality = "hard" THEN 5
    ELSE IF quality = "good" THEN 8
    ELSE 10

Points(quality) ==
    IF quality = "easy" THEN 15
    ELSE IF quality = "good" THEN 10
    ELSE IF quality = "hard" THEN 5
    ELSE 2

\* recentActivity.filter(a => a.type === 'note_reviewed').length
ReviewedCount(activity) ==
    Len(SelectSeq(activity, LAMBDA a : a.type = "note_reviewed"))

\* (average * n + accuracy) / (n + 1) as a reduced fraction
FoldAccuracy(average, n, accuracy) ==
    LET num == (10 * average.num * n) + (accuracy * average.den)
        den == 10 * average.den * (n + 1)
        g == Gcd(num, den)
    IN  [num |-> num \div g, den |-> den \div g]

reviewNote(W, id, quality) ==
    LET ni == FindIndex(W.notes, id)
    IN  IF ni = 0 THEN W
        ELSE
        LET note == W.notes[ni]
            W1 == updateNote(W, id,
                      [reviewData |-> UpdatedReviewData(note.reviewData, quality)])
            n == ReviewedCount(W1.stats.recentActivity)
            updatedStats ==
                [W1.stats EXCEPT
                    !.averageReviewAccuracy =
                        FoldAccuracy(W1.stats.averageReviewAccuracy, n,
                                     Accuracy(quality)),
                    !.recentActivity =
                        <<Activity("note_reviewed", note.title, Points(quality))>>
                        \o Slice0(W1.stats.recentActivity, 9)]
        IN  IF Failed(W1) THEN W1 ELSE updateStats(W1, updatedStats)

----------------------------------------------------------------------------
(* Inputs of the commands *)

NoteIds == 1..MaxNotes
LinkIds == 1..MaxLinks
LinkTypes == {"related"}

\* noteData of createNote
NoteInputs == {[title |-> <<"A">>]}

\* the Math.random() position drawn by createNote
RandomPositions == {[x |-> 0, y |-> 0, room |-> "main_hall"]}

\* updates of updateNote
UpdateInputs == {[title |-> <<"B">>]}

----------------------------------------------------------------------------
(* The state machine *)

\* the state after a successful initializePKM on an empty database
FreshWorld ==
    [notes |-> <<>>, links |-> <<>>, tags |-> <<>>, quests |-> <<>>,
     rooms |-> defaultRooms, stats |-> defaultStats, settings |-> defaultSettings,
     searchQuery |-> <<>>, searchResults |-> <<>>,
     dbNotes |-> EmptyStore, dbLinks |-> EmptyStore, dbTags |-> EmptyStore,
     dbQuests |-> EmptyStore, dbRooms |-> EmptyStore, dbStats |-> NULL,
     dbSettings |-> NULL, dbOpen |-> TRUE, error |-> "none"]

\* the store and the database are as in W, and no command has run yet
StartsAs(W) ==
    /\ notes = W.notes
    /\ links = W.links
    /\ tags = W.tags
    /\ quests = W.quests
    /\ rooms = W.rooms
    /\ stats = W.stats
    /\ settings = W.settings
    /\ searchQuery = W.searchQuery
    /\ searchResults = W.searchResults
    /\ dbNotes = W.dbNotes
    /\ dbLinks = W.dbLinks
    /\ dbTags = W.dbTags
    /\ dbQuests = W.dbQuests
    /\ dbRooms = W.dbRooms
    /\ dbStats = W.dbStats
    /\ dbSettings = W.dbSettings
    /\ dbOpen = W.dbOpen
    /\ error = W.error
    /\ clock = 0
    /\ nextLinkId = 1
    /\ successes = [id \in {} |-> 0]
    /\ exported = NULL
    /\ calls = <<>>
    /\ last = [op |-> "init", id |-> 0, id2 |-> 0, q |-> "-", at |-> 0,
               pre |-> W]

Init ==
    /\ StartsAs(FreshWorld)
    /\ nextNoteId = 1

Commit(W) ==
    /\ notes' = W.notes
    /\ links' = W.links
    /\ tags' = W.tags
    /\ quests' = W.quests
    /\ rooms' = W.rooms
    /\ stats' = W.stats
    /\ settings' = W.settings
    /\ searchQuery' = W.searchQuery
    /\ searchResults' = W.searchResults
    /\ dbNotes' = W.dbNotes
    /\ dbLinks' = W.dbLinks
    /\ dbTags' = W.dbTags
    /\ dbQuests' = W.dbQuests
    /\ dbRooms' = W.dbRooms
    /\ dbStats' = W.dbStats
    /\ dbSettings' = W.dbSettings
    /\ dbOpen' = W.dbOpen
    /\ error' = W.error

Did(op, id, id2, q) ==
    last' = [op |-> op, id |-> id, id2 |-> id2, q |-> q, at |-> clock,
             pre |-> Cur]

CreateNoteCmd(limit) ==
    /\ nextNoteId <= limit
    /\ \E noteData \in NoteInputs, rnd \in RandomPositions :
           Commit(createNote(Cur, noteData, rnd))
    /\ nextNoteId' = nextNoteId + 1
    /\ Did("createNote", nextNoteId, 0, "-")
    /\ UNCHANGED <<calls, exported, successes, clock, nextLinkId>>

CreateNoteStep == CreateNoteCmd(MaxNotes)

UpdateNoteStep ==
    \E id \in NoteIds, updates \in UpdateInputs :
        /\ Commit(updateNote(Cur, id, updates))
        /\ Did("updateNote", id, 0, "-")
        /\ UNCHANGED <<calls, exported, successes, clock, nextNoteId, nextLinkId>>

DeleteNoteStep ==
    \E id \in NoteIds :
        /\ Commit(deleteNote(Cur, id))
        /\ Did("deleteNote", id, 0, "-")
        /\ UNCHANGED <<calls, exported, successes, clock, nextNoteId, nextLinkId>>

CreateLinkStep ==
    /\ nextLinkId <= MaxLinks
    /\ \E sourceId \in NoteIds, targetId \in NoteIds, type \in LinkTypes :
           /\ Commit(createLink(Cur, sourceId, targetId, type))
           /\ Did("createLink", sourceId, targetId, "-")
    /\ nextLinkId' = nextLinkId + 1
    /\ UNCHANGED <<calls, exported, successes, clock, nextNoteId>>

DeleteLinkStep ==
    \E id \in LinkIds :
        /\ Commit(deleteLink(Cur, id))
        /\ Did("deleteLink", id, 0, "-")
        /\ UNCHANGED <<calls, exported, successes, clock, nextNoteId, nextLinkId>>

\* the count of successful reviews after reviewNote(id, quality)
Succeeded(count, arr, id, quality) ==
    IF FindIndex(arr, id) = 0 \/ quality = "again" THEN count
    ELSE [k \in (DOMAIN count) \cup {id} |->
             IF k = id THEN (IF id \in DOMAIN count THEN count[id] ELSE 0) + 1
             ELSE count[k]]

ReviewNoteCmd(budget) ==
    \E id \in NoteIds, quality \in Qualities :
        /\ ReviewedCount(stats.recentActivity) < budget
        /\ \A i \in 1..Len(notes) :
               notes[i].id = id => notes[i].reviewData.interval <= MaxInterval
        /\ Commit(reviewNote(Cur, id, quality))
        /\ Did("reviewNote", id, 0, quality)
        /\ UNCHANGED <<calls, exported, successes, clock, nextNoteId, nextLinkId>>

\* notes and links: the command surface of the link graph
Next ==
    \/ CreateNoteStep
    \/ DeleteNoteStep
    \/ CreateLinkStep
    \/ DeleteLinkStep

Spec == Init /\ [][Next]_vars

\* scheduling: notes made by createNote and reviewed
SchedCreateNote == CreateNoteCmd(SchedNotes)

SchedReviewNote == ReviewNoteCmd(SchedReviews)

NextSched == SchedCreateNote \/ SchedReviewNote

SpecSched == Init /\ [][NextSched]_vars

\* notes and links without deleteNote, with updateNote
LinkCreateNote == CreateNoteCmd(MaxNotes)

NextLinkSym ==
    \/ LinkCreateNote
    \/ UpdateNoteStep
    \/ CreateLinkStep
    \/ DeleteLinkStep

SpecLinkSym == Init /\ [][NextLinkSym]_vars

\* the review transform on one stored note whose review data is any of
\* SeedReviewData: the state after initializePKM has loaded that note
SeedReviewData ==
    {[status |-> st, easeFactor |-> e, interval |-> iv,
      nextReview |-> Date(iv), reviewCount |-> rc,
      lastReviewed |-> IF rc = 0 THEN NULL ELSE Date(0),
      correctStreak |-> cs, totalReviews |-> rc] :
        st \in {"new", "learning", "reviewing", "mastered"},
        e \in {MIN_EASE, 2000000, INITIAL_EASE, MAX_EASE},
        iv \in {1, 2, 10},
        rc \in {0, 19, 20},
        cs \in {0, 3}}

InitReview ==
    /\ settings = defaultSettings
    /\ clock = 0
    /\ \E rd \in SeedReviewData, noteData \in NoteInputs, rnd \in RandomPositions :
           LET note == [BuildNote(1, noteData, rnd) EXCEPT !.reviewData = rd]
               db == Put(EmptyStore, note)
           IN  /\ StartsAs([FreshWorld EXCEPT !.notes = GetAll(db),
                                             !.dbNotes = db])
               /\ nextNoteId = 2

SeededReviewNote == ReviewNoteCmd(MaxReviews)

NextReview == SeededReviewNote

SpecReview == InitReview /\ [][NextReview]_vars

\* graduation: one note made by createNote and reviewed MasteryReviews
\* times; the rolling accuracy is followed while its reduced denominator is
\* at most MaxDenominator
\* createNote on an empty store: the steps that follow one note
CreateFirstNote ==
    /\ notes = <<>>
    /\ CreateNoteCmd(MaxNotes)

MasteryReviewNote ==
    \E id \in NoteIds, quality \in Qualities :
        /\ FindIndex(notes, id) # 0
        /\ notes[FindIndex(notes, id)].reviewData.reviewCount < MasteryReviews
        /\ notes[FindIndex(notes, id)].reviewData.interval <= MaxInterval
        /\ stats.averageReviewAccuracy.den <= MaxDenominator
        /\ Commit(reviewNote(Cur, id, quality))
        /\ Did("reviewNote", id, 0, quality)
        /\ successes' = Succeeded(successes, notes, id, quality)
        /\ UNCHANGED <<calls, exported, clock, nextNoteId, nextLinkId>>

NextMastery == CreateFirstNote \/ MasteryReviewNote

SpecMastery == Init /\ [][NextMastery]_vars

\* the store and the database, for the steps that leave them alone
world == <<notes, links, tags, quests, rooms, stats, settings, searchQuery,
           searchResults, dbNotes, dbLinks,
           dbTags, dbQuests, dbRooms, dbStats, dbSettings, dbOpen, error>>

\* a day passes
Tick ==
    /\ clock < MaxClock
    /\ clock' = clock + 1
    /\ UNCHANGED <<calls, world, exported, nextNoteId, nextLinkId, successes,
                   last>>

CollectNoteCmd(ids) ==
    \E id \in ids :
        /\ Commit(collectNote(Cur, id))
        /\ Did("collectNote", id, 0, "-")
        /\ UNCHANGED <<calls, exported, successes, clock, nextNoteId, nextLinkId>>

UpdateNoteCmd(ids, inputs) ==
    \E id \in ids, updates \in inputs :
        /\ Commit(updateNote(Cur, id, updates))
        /\ Did("updateNote", id, 0, "-")
        /\ UNCHANGED <<calls, exported, successes, clock, nextNoteId, nextLinkId>>

\* the review schedule over time: one note, created, edited, collected and
\* reviewed as the days pass
TimeUpdateNote == UpdateNoteCmd(1..SchedNotes, UpdateInputs)

TimeCollectNote == CollectNoteCmd(1..SchedNotes)

TimeReviewNote == ReviewNoteCmd(TimeReviews)

NextTime ==
    \/ CreateFirstNote
    \/ TimeUpdateNote
    \/ TimeCollectNote
    \/ TimeReviewNote
    \/ Tick

SpecTime == Init /\ [][NextTime]_vars

TagNames == {<<"t">>}
TagColors == {"#fff"}

CreateTagStep ==
    /\ Len(tags) < MaxTags
    /\ \E name \in TagNames, color \in TagColors :
           Commit(createTag(Cur, name, color))
    /\ Did("createTag", 0, 0, "-")
    /\ UNCHANGED <<calls, exported, successes, clock, nextNoteId, nextLinkId>>

\* exportData: the document goes to the caller (one export is followed)
ExportDataStep ==
    /\ exported = NULL
    /\ IF ensureDB(Cur)
       THEN /\ exported' = Storage_exportData(Cur)
            /\ Commit(Cur)
       ELSE /\ UNCHANGED exported
            /\ Commit(Throw(Cur, NOT_INITIALIZED))
    /\ Did("exportData", 0, 0, "-")
    /\ UNCHANGED <<calls, successes, clock, nextNoteId, nextLinkId>>

\* importData of a document of docs; outcomes are the outcomes of the
\* indexedDB.open of the reload
ImportDataCmd(docs, outcomes) ==
    \E data \in docs, opens \in outcomes :
        /\ Commit(importData(Cur, data, opens))
        /\ last' = [op |-> "importData", id |-> 0, id2 |-> 0,
                    q |-> IF opens THEN "opens" ELSE "fails",
                    at |-> clock, pre |-> Cur, doc |-> data]
        /\ UNCHANGED <<calls, exported, successes, clock, nextNoteId, nextLinkId>>

\* export and import: a note is created and reviewed as the days pass, a tag
\* and a link are made, and the last exported document is imported again
SnapReviewNote == ReviewNoteCmd(SnapReviews)

SnapCreateLink ==
    /\ nextLinkId <= SnapLinks
    /\ \E sourceId \in 1..SchedNotes, targetId \in 1..SchedNotes,
          type \in LinkTypes :
           /\ Commit(createLink(Cur, sourceId, targetId, type))
           /\ Did("createLink", sourceId, targetId, "-")
    /\ nextLinkId' = nextLinkId + 1
    /\ UNCHANGED <<calls, exported, successes, clock, nextNoteId>>

SnapImportData ==
    /\ exported # NULL
    /\ ImportDataCmd({exported}, {TRUE})

NextSnapshot ==
    \/ SchedCreateNote
    \/ SnapReviewNote
    \/ SnapCreateLink
    \/ CreateTagStep
    \/ ExportDataStep
    \/ SnapImportData
    \/ Tick

SpecSnapshot == Init /\ [][NextSnapshot]_vars

\* noteData with and without content
ContentInputs ==
    {[title |-> <<"A">>, content |-> <<"a", " ", "b">>],
     [title |-> <<"B">>]}

\* updates of the content, the empty content among them, and of the title
ContentUpdates ==
    {[content |-> <<>>],
     [content |-> <<"c", "\n", "a">>],
     [title |-> <<"C">>]}

\* queries: empty, blank, one term, terms cut by spaces, terms cut by a tab
Queries ==
    {<<>>,
     <<" ", "\t">>,
     <<"A">>,
     <<"a", " ", " ", "B">>,
     <<"a", "\t", "b">>,
     <<"c", " ">>}

\* notes with content, edited and searched
ContentCreateNote ==
    /\ nextNoteId <= MaxNotes
    /\ \E noteData \in ContentInputs, rnd \in RandomPositions :
           Commit(createNote(Cur, noteData, rnd))
    /\ nextNoteId' = nextNoteId + 1
    /\ Did("createNote", nextNoteId, 0, "-")
    /\ UNCHANGED <<calls, exported, successes, clock, nextLinkId>>

ContentUpdateNote == UpdateNoteCmd(NoteIds, ContentUpdates)

SearchNotesStep ==
    \E query \in Queries :
        /\ Commit(searchNotes(Cur, query))
        /\ last' = [op |-> "searchNotes", id |-> 0, id2 |-> 0, q |-> "-",
                    at |-> clock, pre |-> Cur, query |-> query]
        /\ UNCHANGED <<calls, exported, successes, clock, nextNoteId, nextLinkId>>

NextContent ==
    \/ ContentCreateNote
    \/ ContentUpdateNote
    \/ SearchNotesStep

SpecContent == Init /\ [][NextContent]_vars

\* records of an import document
DocNote(id) ==
    JsonNote(BuildNote(id, [title |-> <<"A">>],
                       [x |-> 0, y |-> 0, room |-> "main_hall"]))

DocLink(id) ==
    JsonLink([id |-> id, sourceId |-> 1, targetId |-> 1, type |-> "related",
              strength |-> 5, createdAt |-> Date(0)])

DocTag(id) ==
    JsonTag([id |-> id, name |-> <<"t">>, color |-> "#fff",
             description |-> <<>>, noteCount |-> 0, createdAt |-> Date(0)])

DocQuest(id) == [id |-> id, title |-> <<"q">>, isCompleted |-> FALSE]

EmptyDoc ==
    [version |-> "1.0", timestamp |-> Iso(Date(0)), notes |-> <<>>,
     links |-> <<>>, tags |-> <<>>, quests |-> <<>>, rooms |-> <<>>,
     stats |-> NULL, settings |-> NULL]

\* documents with one record of every kind, and with two records of one id in
\* the notes, the links, the tags, the quests or the rooms
ImportDocs ==
    {[EmptyDoc EXCEPT !.notes = <<DocNote(1)>>, !.links = <<DocLink(1)>>,
                      !.tags = <<DocTag(1)>>, !.quests = <<DocQuest(1)>>,
                      !.rooms = defaultRooms, !.stats = defaultStats,
                      !.settings = defaultSettings],
     [EmptyDoc EXCEPT !.notes = <<DocNote(1), DocNote(2), DocNote(1)>>],
     [EmptyDoc EXCEPT !.notes = <<DocNote(2)>>,
                      !.links = <<DocLink(1), DocLink(1)>>],
     [EmptyDoc EXCEPT !.tags = <<DocTag(1), DocTag(1)>>],
     [EmptyDoc EXCEPT !.quests = <<DocQuest(1), DocQuest(1)>>],
     [EmptyDoc EXCEPT !.notes = <<DocNote(1)>>,
                      !.rooms = defaultRooms \o defaultRooms]}

\* the page is loaded again: the store is created anew and the storage
\* object has no handle yet; the database and the persisted settings stay
ReloadPage ==
    /\ Commit([Cur EXCEPT !.notes = <<>>, !.links = <<>>, !.tags = <<>>,
                          !.quests = <<>>, !.rooms = defaultRooms,
                          !.stats = defaultStats, !.searchQuery = <<>>,
                          !.searchResults = <<>>, !.dbOpen = FALSE])
    /\ Did("reload", 0, 0, "-")
    /\ UNCHANGED <<calls, exported, successes, clock, nextNoteId, nextLinkId>>

\* initializePKM, called when the notes overlay mounts
InitializeCmd(outcomes) ==
    \E opens \in outcomes :
        /\ Commit(initializePKM(Cur, opens))
        /\ Did("initializePKM", 0, 0, IF opens THEN "opens" ELSE "fails")
        /\ UNCHANGED <<calls, exported, successes, clock, nextNoteId, nextLinkId>>

\* start-up and import: notes and a tag are made, documents are imported, the
\* page is reloaded, and indexedDB.open may fail
ImportDataStep == ImportDataCmd(ImportDocs, BOOLEAN)

InitializeStep == InitializeCmd(BOOLEAN)

NextImport ==
    \/ SchedCreateNote
    \/ CreateTagStep
    \/ ImportDataStep
    \/ ReloadPage
    \/ InitializeStep

SpecImport == Init /\ [][NextImport]_vars

\* the storage object on its own, from before the first init: init, which
\* may fail, close, and the data operations
InitStorage ==
    /\ settings = defaultSettings
    /\ clock = 0
    /\ StartsAs([FreshWorld EXCEPT !.dbOpen = FALSE])
    /\ nextNoteId = 1

StorageInitStep ==
    \E opens \in BOOLEAN :
        /\ Commit(Storage_init(Cur, opens))
        /\ Did("init", 0, 0, IF opens THEN "opens" ELSE "fails")
        /\ UNCHANGED <<calls, exported, successes, clock, nextNoteId, nextLinkId>>

StorageCloseStep ==
    /\ Commit(Storage_close(Cur))
    /\ Did("close", 0, 0, "-")
    /\ UNCHANGED <<calls, exported, successes, clock, nextNoteId, nextLinkId>>

\* the record a data operation is called with
StorageRecord(op, id) ==
    IF op \in {"createLink", "deleteLink"} THEN DocLink(id)
    ELSE IF op = "createTag" THEN DocTag(id)
    ELSE BuildNote(id, [title |-> <<"A">>],
                   [x |-> 0, y |-> 0, room |-> "main_hall"])

StorageCallStep ==
    \E op \in StorageWrites \cup StorageReads, id \in 1..SchedNotes,
       data \in {[EmptyDoc EXCEPT !.quests = <<DocQuest(1)>>]} :
        /\ Commit(Storage_call(Cur, op, StorageRecord(op, id), data))
        /\ Did(op, id, 0, "storage")
        /\ UNCHANGED <<calls, exported, successes, clock, nextNoteId, nextLinkId>>

NextStorage ==
    \/ StorageInitStep
    \/ StorageCloseStep
    \/ StorageCallStep

SpecStorage == InitStorage /\ [][NextStorage]_vars

\* the update and delete commands on ids that may name no record
TagIds == 1..MaxTags

\* updates of updateTag
TagUpdates == {[name |-> <<"u">>]}

UpdateTagStep ==
    \E id \in TagIds, updates \in TagUpdates :
        /\ Commit(updateTag(Cur, id, updates))
        /\ Did("updateTag", id, 0, "-")
        /\ UNCHANGED <<calls, exported, successes, clock, nextNoteId, nextLinkId>>

NextFrame ==
    \/ CreateNoteStep
    \/ CreateLinkStep
    \/ CreateTagStep
    \/ UpdateNoteStep
    \/ UpdateTagStep
    \/ DeleteNoteStep
    \/ DeleteLinkStep

SpecFrame == Init /\ [][NextFrame]_vars

\* the whole command surface on the collections, one command at a time after
\* a successful initializePKM; the reload that ends importData succeeds
SyncCollectNote == CollectNoteCmd(NoteIds)

\* a document with one record of every kind, and one that names a note twice
SyncDocs ==
    {[EmptyDoc EXCEPT !.notes = <<DocNote(1)>>, !.links = <<DocLink(1)>>,
                      !.tags = <<DocTag(1)>>, !.stats = defaultStats],
     [EmptyDoc EXCEPT !.notes = <<DocNote(1), DocNote(1)>>]}

SyncImportData == ImportDataCmd(SyncDocs, {TRUE})

NextSync ==
    \/ CreateFirstNote
    \/ UpdateNoteStep
    \/ DeleteNoteStep
    \/ SyncCollectNote
    \/ SnapCreateLink
    \/ DeleteLinkStep
    \/ CreateTagStep
    \/ UpdateTagStep
    \/ SyncImportData

SpecSync == Init /\ [][NextSync]_vars

\* updateNote with updates that carry an id field (updates is a Partial<Note>)
IdUpdates == {[id |-> i] : i \in NoteIds}

IdUpdateNote == UpdateNoteCmd(NoteIds, UpdateInputs \cup IdUpdates)

NextIdentity ==
    \/ CreateNoteStep
    \/ IdUpdateNote
    \/ DeleteNoteStep

SpecIdentity == Init /\ [][NextIdentity]_vars

\* the activity log: notes are created and the first note is reviewed, one
\* command after the other, each at a later instant than the one before.
\* The record of the last command also carries the number of commands so
\* far, and the number and the accuracy sum (in tenths) of the reviews.
JournalQualities == {"again", "hard"}

Journaled == IF Has(last, "count") THEN last.count ELSE 0

ReviewsDone == IF Has(last, "reviews") THEN last.reviews ELSE 0

AccuracySum == IF Has(last, "sum") THEN last.sum ELSE 0

JournalCreateNote ==
    /\ Journaled < JournalLength
    /\ nextNoteId <= MaxNotes
    /\ \E noteData \in NoteInputs, rnd \in RandomPositions :
           Commit(createNote(Cur, noteData, rnd))
    /\ nextNoteId' = nextNoteId + 1
    /\ clock' = clock + 1
    /\ last' = [op |-> "createNote", id |-> nextNoteId, id2 |-> 0, q |-> "-",
                at |-> clock, pre |-> Cur, count |-> Journaled + 1,
                reviews |-> ReviewsDone, sum |-> AccuracySum]
    /\ UNCHANGED <<calls, exported, successes, nextLinkId>>

JournalReviewNote ==
    /\ Journaled < JournalLength
    /\ notes # <<>>
    /\ \E quality \in JournalQualities :
           /\ Commit(reviewNote(Cur, notes[1].id, quality))
           /\ last' = [op |-> "reviewNote", id |-> notes[1].id, id2 |-> 0,
                       q |-> quality, at |-> clock, pre |-> Cur,
                       count |-> Journaled + 1, reviews |-> ReviewsDone + 1,
                       sum |-> AccuracySum + Accuracy(quality)]
    /\ clock' = clock + 1
    /\ UNCHANGED <<calls, exported, successes, nextNoteId, nextLinkId>>

NextJournal == JournalCreateNote \/ JournalReviewNote

SpecJournal == Init /\ [][NextJournal]_vars

\* a document in which note 1 links to note 2: the link record, the entry in
\* note 1's links, the entry in note 2's backlinks and the link count
LinkedNote(id, forward, back) ==
    LET note == DocNote(id)
    IN  [note EXCEPT !.metadata = [note.metadata EXCEPT !.links = forward,
                                                        !.backlinks = back]]

LinkedDoc ==
    [EmptyDoc EXCEPT
        !.notes = <<LinkedNote(1, <<2>>, <<>>), LinkedNote(2, <<>>, <<1>>)>>,
        !.links = <<JsonLink([id |-> 1, sourceId |-> 1, targetId |-> 2,
                              type |-> "related", strength |-> 5,
                              createdAt |-> Date(0)])>>,
        !.stats = [defaultStats EXCEPT !.totalNotes = 2, !.totalLinks = 1]]

UnlinkImportData == ImportDataCmd({LinkedDoc}, {TRUE})

\* links are made and deleted between notes that were created or imported
NextUnlink ==
    \/ CreateNoteStep
    \/ CreateLinkStep
    \/ DeleteLinkStep
    \/ UnlinkImportData

SpecUnlink == Init /\ [][NextUnlink]_vars

----------------------------------------------------------------------------
(* Commands in flight.  A command runs until it awaits a storage request  *)
(* and continues when the request has succeeded.  A request takes effect  *)
(* on the database when it is issued: readwrite transactions on a common  *)
(* object store run in the order in which they were created.  For the     *)
(* same reason a call waiting on a store continues before the calls that  *)
(* issued a request on that store after it; calls waiting on different    *)
(* stores continue in any order.                                          *)

\* a command that was just invoked
Invoke(op, id, id2, q) ==
    [op |-> op, id |-> id, id2 |-> id2, q |-> q, pc |-> "start",
     scope |-> {}, put |-> NULL, more |-> NULL]

\* the command awaits a request on the stores of scope; put is the record it
\* sets in memory when it continues
Await(W, c, pc, scope, put) ==
    [W |-> W, c |-> [c EXCEPT !.pc = pc, !.scope = scope, !.put = put]]

\* the command has returned, or has rejected with the error set in W
Return(W, c) == [W |-> W, c |-> [c EXCEPT !.pc = "done", !.scope = {}]]

\* updateNote up to its await: the lookup and the put request
UpdateNoteBegin(W, id, updates) ==
    LET noteIndex == FindIndex(W.notes, id)
    IN  IF noteIndex = 0 THEN [W |-> W, put |-> NULL]
        ELSE IF ~ensureDB(W)
        THEN [W |-> Throw(W, NOT_INITIALIZED), put |-> NULL]
        ELSE LET updatedNote == UpdatedNote(W.notes[noteIndex], updates)
             IN  [W |-> [W EXCEPT !.dbNotes =
                                    Storage_updateNote(W.dbNotes, updatedNote)],
                  put |-> updatedNote]

\* updateNote after its await: notes.map(note => note.id === id ? ... )
UpdateNoteEnd(W, id, updatedNote) ==
    [W EXCEPT !.notes = [i \in 1..Len(W.notes) |->
                            IF W.notes[i].id = id THEN updatedNote
                            ELSE W.notes[i]]]

\* updateStats up to its await
UpdateStatsBegin(W, updates) ==
    LET newStats == Spread(W.stats, updates)
    IN  IF ~ensureDB(W) THEN [W |-> Throw(W, NOT_INITIALIZED), put |-> NULL]
        ELSE [W |-> [W EXCEPT !.dbStats = Storage_updateStats(newStats)],
              put |-> newStats]

\* an updateStats that never sets the stats in memory
UpdateStatsEnd_Unset(W, newStats) == W

\* updateStats after its await
UpdateStatsEnd(W, newStats) == [W EXCEPT !.stats = newStats]

\* a command reads the stats, changes them by Change and awaits updateStats
AwaitStats(W, c, Change(_)) ==
    LET b == UpdateStatsBegin(W, Change(W.stats))
    IN  IF Failed(b.W) THEN Return(b.W, c)
        ELSE Await(b.W, c, "setStats", {"stats"}, b.put)

\* createLink from the stats update on
LinkStats(W, c) ==
    AwaitStats(W, c, LAMBDA st : [st EXCEPT !.totalLinks = st.totalLinks + 1])

\* createLink from the target note on; c.more is the targetNote it found
LinkTarget(W, c) ==
    IF c.more = NULL THEN LinkStats(W, c)
    ELSE LET b == UpdateNoteBegin(W, c.id2,
                      [metadata |->
                          [c.more.metadata EXCEPT
                              !.backlinks = WithId(c.more.metadata.backlinks,
                                                   c.id)]])
         IN  IF Failed(b.W) THEN Return(b.W, c)
             ELSE IF b.put = NULL THEN LinkStats(b.W, c)
             ELSE Await(b.W, c, "setTarget", {"notes"}, b.put)

\* createLink from the set of the link on: sourceNote and targetNote are
\* looked up once, here
LinkSource(W, c) ==
    LET W1 == [W EXCEPT !.links = Append(W.links, c.put)]
        si == FindIndex(W1.notes, c.id)
        ti == FindIndex(W1.notes, c.id2)
        c1 == [c EXCEPT !.more = IF ti = 0 THEN NULL ELSE W1.notes[ti]]
    IN  IF si = 0 THEN LinkTarget(W1, c1)
        ELSE LET b == UpdateNoteBegin(W1, c.id,
                          [metadata |->
                              [W1.notes[si].metadata EXCEPT
                                  !.links = WithId(W1.notes[si].metadata.links,
                                                   c.id2)]])
             IN  IF Failed(b.W) THEN Return(b.W, c1)
                 ELSE IF b.put = NULL THEN LinkTarget(b.W, c1)
                 ELSE Await(b.W, c1, "setSource", {"notes"}, b.put)

\* createLink, from where it stands to its next await
createLink_Continue(W, c) ==
    IF c.pc = "start"
    THEN LET newLink == NewLink(c.id, c.id2, c.q)
         IN  IF ~ensureDB(W) THEN Return(Throw(W, NOT_INITIALIZED), c)
             ELSE IF ~AddAccepts(W.dbLinks, newLink)
             THEN Return(Throw(W, CONSTRAINT_ERROR), c)
             ELSE Await([W EXCEPT !.dbLinks =
                                    Storage_createLink(W.dbLinks, newLink)],
                        c, "setLink", {"links"}, newLink)
    ELSE IF c.pc = "setLink" THEN LinkSource(W, c)
    ELSE IF c.pc = "setSource"
    THEN LinkTarget(UpdateNoteEnd(W, c.id, c.put), c)
    ELSE IF c.pc = "setTarget"
    THEN LinkStats(UpdateNoteEnd(W, c.id2, c.put), c)
    ELSE Return(UpdateStatsEnd(W, c.put), c)

\* updateNote, from where it stands to its next await; c.more is updates
updateNote_Continue(W, c) ==
    IF c.pc = "start"
    THEN LET b == UpdateNoteBegin(W, c.id, c.more)
         IN  IF Failed(b.W) \/ b.put = NULL THEN Return(b.W, c)
             ELSE Await(b.W, c, "setNote", {"notes"}, b.put)
    ELSE Return(UpdateNoteEnd(W, c.id, c.put), c)

deleteNote_Continue(W, c) ==
    IF c.pc = "start"
    THEN IF ~ensureDB(W) THEN Return(Throw(W, NOT_INITIALIZED), c)
         ELSE Await(Storage_deleteNote(W, c.id), c, "setNotes",
                    {"notes", "links"}, NULL)
    ELSE IF c.pc = "setNotes"
    THEN AwaitStats(
             [W EXCEPT
                 !.notes = SelectSeq(W.notes, LAMBDA note : note.id # c.id),
                 !.links = SelectSeq(W.links,
                               LAMBDA link : link.sourceId # c.id
                                                 /\ link.targetId # c.id)],
             c, LAMBDA st : [st EXCEPT !.totalNotes = Max(0, st.totalNotes - 1)])
    ELSE Return(UpdateStatsEnd(W, c.put), c)

collectNote_Continue(W, c) ==
    IF c.pc = "start"
    THEN LET ni == FindIndex(W.notes, c.id)
         IN  IF ni = 0 THEN Return(W, c)
             ELSE IF W.notes[ni].isCollected THEN Return(W, c)
             ELSE IF ~ensureDB(W) THEN Return(Throw(W, NOT_INITIALIZED), c)
             ELSE LET updatedNote == [W.notes[ni] EXCEPT !.isCollected = TRUE]
                  IN  Await([W EXCEPT !.dbNotes =
                                        Storage_updateNote(W.dbNotes, updatedNote)],
                            c, "setNote", {"notes"}, updatedNote)
    ELSE IF c.pc = "setNote"
    THEN AwaitStats(UpdateNoteEnd(W, c.id, c.put), c,
             LAMBDA st : [st EXCEPT !.collectedNotes = st.collectedNotes + 1,
                                    !.wisdomPoints = st.wisdomPoints + 5])
    ELSE Return(UpdateStatsEnd(W, c.put), c)

\* reviewNote; c.q is the quality, c.more the note it found
reviewNote_Continue(W, c) ==
    IF c.pc = "start"
    THEN LET ni == FindIndex(W.notes, c.id)
         IN  IF ni = 0 THEN Return(W, c)
             ELSE LET note == W.notes[ni]
                      b == UpdateNoteBegin(W, c.id,
                               [reviewData |->
                                   UpdatedReviewData(note.reviewData, c.q)])
                  IN  IF Failed(b.W) THEN Return(b.W, c)
                      ELSE Await(b.W, [c EXCEPT !.more = note], "setNote",
                                 {"notes"}, b.put)
    ELSE IF c.pc = "setNote"
    THEN AwaitStats(UpdateNoteEnd(W, c.id, c.put), c,
             LAMBDA st :
                 [st EXCEPT
                     !.averageReviewAccuracy =
                         FoldAccuracy(st.averageReviewAccuracy,
                                      ReviewedCount(st.recentActivity),
                                      Accuracy(c.q)),
                     !.recentActivity =
                         <<Activity("note_reviewed", c.more.title, Points(c.q))>>
                         \o Slice0(st.recentActivity, 9)])
    ELSE Return(UpdateStatsEnd(W, c.put), c)

\* a command in flight, from where it stands to its next await
Continue(W, c) ==
    IF c.op = "createLink" THEN createLink_Continue(W, c)
    ELSE IF c.op = "updateNote" THEN updateNote_Continue(W, c)
    ELSE IF c.op = "deleteNote" THEN deleteNote_Continue(W, c)
    ELSE IF c.op = "collectNote" THEN collectNote_Continue(W, c)
    ELSE reviewNote_Continue(W, c)

\* the call at position i of calls may continue: no call before it waits on
\* a store it waits on
MayContinue(i) ==
    \A j \in 1..(i - 1) : calls[j].scope \cap calls[i].scope = {}

\* calls without its i-th element
Without(s, i) == SubSeq(s, 1, i - 1) \o SubSeq(s, i + 1, Len(s))

\* the ids whose deleteNote has returned, as the record of the last step
\* carries them along
Deleted == IF Has(last, "deleted") THEN last.deleted ELSE {}

\* the number of commands invoked so far, carried along in the same way
Issued == IF Has(last, "issued") THEN last.issued ELSE 0

\* the record of a step of the call c that led to r
Stepped(c, r) ==
    [op |-> c.op, id |-> c.id, id2 |-> c.id2, q |-> c.q, at |-> clock,
     pre |-> Cur, pc |-> r.c.pc,
     issued |-> IF c.pc = "start" THEN Issued + 1 ELSE Issued,
     deleted |-> IF c.op = "deleteNote" /\ r.c.pc = "done" /\ ~Failed(r.W)
                 THEN Deleted \cup {c.id} ELSE Deleted]

\* the command c is invoked and runs to its first await
Issue(c) ==
    LET r == Continue(Cur, c)
    IN  /\ Commit(r.W)
        /\ calls' = IF r.c.pc = "done" THEN calls ELSE Append(calls, r.c)
        /\ last' = Stepped(c, r)

\* a request has succeeded, and the call that awaited it continues
ResumeStep ==
    \E i \in 1..Len(calls) :
        /\ MayContinue(i)
        /\ LET r == Continue(Cur, calls[i])
           IN  /\ Commit(r.W)
               /\ calls' = IF r.c.pc = "done" THEN Without(calls, i)
                           ELSE Append(Without(calls, i), r.c)
               /\ last' = Stepped(calls[i], r)
        /\ UNCHANGED <<exported, successes, clock, nextNoteId, nextLinkId>>

\* nothing is in flight
Quiescent == calls = <<>>

\* createNote, invoked while nothing is in flight
QuietCreateNote ==
    /\ Quiescent
    /\ CreateNoteStep

\* createLink is invoked, whatever is in flight
CallCreateLink ==
    /\ nextLinkId <= MaxLinks
    /\ \E sourceId \in NoteIds, targetId \in NoteIds, type \in LinkTypes :
           Issue(Invoke("createLink", sourceId, targetId, type))
    /\ nextLinkId' = nextLinkId + 1
    /\ UNCHANGED <<exported, successes, clock, nextNoteId>>

NextLinkRace ==
    \/ QuietCreateNote
    \/ CallCreateLink
    \/ ResumeStep

SpecLinkRace == Init /\ [][NextLinkRace]_vars

\* createLink while a storage request after the add of the link may fail
LinkWrites == {"source", "target", "stats"}

FaultyCreateLink ==
    /\ nextLinkId <= MaxLinks
    /\ \E sourceId \in NoteIds, targetId \in NoteIds, type \in LinkTypes,
          rejects \in LinkWrites \cup {"none"} :
           /\ Commit(createLink_Rejecting(Cur, sourceId, targetId, type, rejects))
           /\ Did("createLink", sourceId, targetId, rejects)
    /\ nextLinkId' = nextLinkId + 1
    /\ UNCHANGED <<calls, exported, successes, clock, nextNoteId>>

NextLinkFault ==
    \/ CreateNoteStep
    \/ FaultyCreateLink
    \/ DeleteLinkStep

SpecLinkFault == Init /\ [][NextLinkFault]_vars

\* updateNote with updates that carry a title, content (empty or not), a
\* metadata object, or content and a metadata object
MetadataInput ==
    [wordCount |-> 7, readingTime |-> 7, links |-> <<1, 2>>,
     backlinks |-> <<1, 2>>, attachments |-> <<"file">>, importance |-> 5]

MetadataUpdates ==
    {[title |-> <<"B">>],
     [content |-> <<>>],
     [content |-> <<"a", " ", "b">>],
     [metadata |-> MetadataInput],
     [content |-> <<"a", " ", "b">>, metadata |-> MetadataInput]}

MetadataUpdateNote ==
    \E id \in NoteIds, updates \in MetadataUpdates :
        /\ Commit(updateNote(Cur, id, updates))
        /\ last' = [op |-> "updateNote", id |-> id, id2 |-> 0, q |-> "-",
                    at |-> clock, pre |-> Cur, updates |-> updates]
        /\ UNCHANGED <<calls, exported, successes, clock, nextNoteId, nextLinkId>>

\* notes are created, or imported with links and backlinks, and updated
NextMetadata ==
    \/ CreateFirstNote
    \/ UnlinkImportData
    \/ MetadataUpdateNote

SpecMetadata == Init /\ [][NextMetadata]_vars

\* commands on one note, in flight at once.  The state after initializePKM
\* has loaded the note N = 1; RaceCalls commands are invoked, and at most
\* MaxCalls of them are in flight at once.
MaxCalls == 2
RaceCalls == 3

InitNoteRace ==
    /\ settings = defaultSettings
    /\ clock = 0
    /\ \E noteData \in NoteInputs, rnd \in RandomPositions :
           LET db == Put(EmptyStore, BuildNote(1, noteData, rnd))
               st == [defaultStats EXCEPT !.totalNotes = 1]
           IN  StartsAs([FreshWorld EXCEPT
                            !.notes = GetAll(db), !.dbNotes = db,
                            !.stats = Storage_updateStats(st),
                            !.dbStats = Storage_updateStats(st)])
    /\ nextNoteId = 2

RaceCommands ==
    {Invoke("deleteNote", 1, 0, "-")}
        \cup {[Invoke("updateNote", 1, 0, "-") EXCEPT !.more = updates] :
                 updates \in UpdateInputs}
        \cup {Invoke("collectNote", 1, 0, "-")}
        \cup {Invoke("reviewNote", 1, 0, quality) : quality \in JournalQualities}

CallOnNote ==
    /\ Len(calls) < MaxCalls
    /\ Issued < RaceCalls
    /\ \E c \in RaceCommands : Issue(c)
    /\ UNCHANGED <<exported, successes, clock, nextNoteId, nextLinkId>>

NextNoteRace ==
    \/ CallOnNote
    \/ ResumeStep

SpecNoteRace == InitNoteRace /\ [][NextNoteRace]_vars

----------------------------------------------------------------------------
(* Properties *)

HasNote(arr, id) == FindIndex(arr, id) # 0
NoteAt(arr, id) == arr[FindIndex(arr, id)]
Touches(link, id) == link.sourceId = id \/ link.targetId = id
Contains(list, x) == \E i \in 1..Len(list) : list[i] = x
AfterCommand(op) == last.op = op
Pre == last.pre

\* C1: once createLink(A, B, type) has completed on two existing notes A and
\* B, A's metadata.links contains B and B's metadata.backlinks contains A,
\* in the in-memory notes and in the durable note records.
C1_CreateLinkRecordsBothEnds ==
    (AfterCommand("createLink") /\ last.id # last.id2
        /\ HasNote(Pre.notes, last.id) /\ HasNote(Pre.notes, last.id2))
    => /\ Contains(NoteAt(notes, last.id).metadata.links, last.id2)
       /\ Contains(NoteAt(notes, last.id2).metadata.backlinks, last.id)
       /\ Contains(dbNotes[last.id].metadata.links, last.id2)
       /\ Contains(dbNotes[last.id2].metadata.backlinks, last.id)

\* C2: link/backlink symmetry in every state reached by createNote,
\* updateNote, createLink and deleteLink: for every link (A, B) of the link
\* collection, the note A lists B in metadata.links and the note B lists A
\* in metadata.backlinks.
C2_LinkBacklinkSymmetry ==
    \A i \in 1..Len(links) :
        /\ HasNote(notes, links[i].sourceId)
              => Contains(NoteAt(notes, links[i].sourceId).metadata.links,
                          links[i].targetId)
        /\ HasNote(notes, links[i].targetId)
              => Contains(NoteAt(notes, links[i].targetId).metadata.backlinks,
                          links[i].sourceId)

\* C3: after deleteNote(id) the note record is gone, no link with sourceId
\* or targetId equal to id remains in the durable link store or in the
\* in-memory links, and every link not touching id is kept.
C3_DeleteNoteCascades ==
    AfterCommand("deleteNote")
    => /\ last.id \notin DOMAIN dbNotes
       /\ ~HasNote(notes, last.id)
       /\ \A k \in DOMAIN dbLinks : ~Touches(dbLinks[k], last.id)
       /\ \A i \in 1..Len(links) : ~Touches(links[i], last.id)
       /\ \A k \in DOMAIN Pre.dbLinks :
             ~Touches(Pre.dbLinks[k], last.id)
                => k \in DOMAIN dbLinks /\ dbLinks[k] = Pre.dbLinks[k]
       /\ \A i \in 1..Len(Pre.links) :
             ~Touches(Pre.links[i], last.id)
                => \E j \in 1..Len(links) : links[j] = Pre.links[i]

\* a deleteNote of a stored note that is the target of a link from another
\* note, while a link between other notes is kept
C3_Witness ==
    /\ AfterCommand("deleteNote")
    /\ last.id \in DOMAIN Pre.dbNotes
    /\ HasNote(Pre.notes, last.id)
    /\ \E k \in DOMAIN Pre.dbLinks :
           Pre.dbLinks[k].targetId = last.id /\ Pre.dbLinks[k].sourceId # last.id
    /\ Len(links) > 0
    /\ DOMAIN dbLinks # {}

\* C4: in every state reached by createNote, createLink, deleteLink and
\* deleteNote, every stored link's sourceId and targetId name notes that
\* currently exist.
C4_LinksNameExistingNotes ==
    /\ \A k \in DOMAIN dbLinks :
           dbLinks[k].sourceId \in DOMAIN dbNotes
              /\ dbLinks[k].targetId \in DOMAIN dbNotes
    /\ \A i \in 1..Len(links) :
           HasNote(notes, links[i].sourceId) /\ HasNote(notes, links[i].targetId)

\* C5: after any sequence of createLink, deleteLink and deleteNote from an
\* empty store, stats.totalLinks equals the number of links in the link
\* collection.
C5_TotalLinksCountsLinks ==
    /\ stats.totalLinks = Len(links)
    /\ stats.totalLinks = Cardinality(DOMAIN dbLinks)

\* a reviewNote that found its note: the review data before and after
Reviewed == AfterCommand("reviewNote") /\ HasNote(Pre.notes, last.id)
RdBefore == NoteAt(Pre.notes, last.id).reviewData
RdAfter == NoteAt(notes, last.id).reviewData
RdStored == dbNotes[last.id].reviewData

\* C6: for notes created by createNote, after any sequence of reviewNote
\* calls the ease factor is at least 1.3 and at most 3.0.
C6_EaseWithinBounds ==
    /\ \A i \in 1..Len(notes) :
           /\ notes[i].reviewData.easeFactor >= 1300000
           /\ notes[i].reviewData.easeFactor <= 3000000
    /\ \A k \in DOMAIN dbNotes :
           /\ dbNotes[k].reviewData.easeFactor >= 1300000
           /\ dbNotes[k].reviewData.easeFactor <= 3000000

\* an 'easy' review whose product ease * 1.3 exceeds 3.0, after an earlier
\* 'again' review had pushed the ease factor down
C6_Witness ==
    /\ Reviewed
    /\ last.q = "easy"
    /\ RdBefore.reviewCount >= 1
    /\ RdBefore.easeFactor * 13 > 3000000 * 10
    /\ RdAfter.easeFactor = 3000000

\* C7: reviewNote(id, 'again') on an existing note sets interval to 1,
\* correctStreak to 0 and status to learning, whatever the prior review data.
C7_AgainResets ==
    (Reviewed /\ last.q = "again")
    => /\ RdAfter.interval = 1
       /\ RdAfter.correctStreak = 0
       /\ RdAfter.status = "learning"
       /\ RdStored = RdAfter

\* an 'again' review of a mastered note with a longer interval and a streak
C7_Witness ==
    /\ Reviewed
    /\ last.q = "again"
    /\ RdBefore.status = "mastered"
    /\ RdBefore.interval > 1
    /\ RdBefore.correctStreak > 0
    /\ RdBefore.reviewCount >= 20

\* C8 as stated: for 'easy', ease' = min(3.0, ease * 1.3) and
\* interval' = floor(interval * 1.3 * ease') with ease' the updated ease.
C8_EasyIntervalFromNewEase ==
    (Reviewed /\ last.q = "easy")
    => /\ RdAfter.easeFactor = Min(3000000, (RdBefore.easeFactor * 13) \div 10)
       /\ RdAfter.interval =
              (RdBefore.interval * 13 * RdAfter.easeFactor) \div 10000000

\* C8 amended: for 'easy', ease' = min(3.0, ease * 1.3) and
\* interval' = floor(interval * 1.3 * ease) with ease the ease factor
\* before the review.
C8_EasyIntervalFromPriorEase ==
    (Reviewed /\ last.q = "easy")
    => /\ RdAfter.easeFactor = Min(3000000, (RdBefore.easeFactor * 13) \div 10)
       /\ RdAfter.interval =
              (RdBefore.interval * 13 * RdBefore.easeFactor) \div 10000000
       /\ RdStored = RdAfter

\* an 'easy' review where the prior and the updated ease give other intervals
C8_Witness ==
    /\ Reviewed
    /\ last.q = "easy"
    /\ RdAfter.easeFactor # RdBefore.easeFactor
    /\ (RdBefore.interval * 13 * RdBefore.easeFactor) \div 10000000
          # (RdBefore.interval * 13 * RdAfter.easeFactor) \div 10000000

\* C9: for 'good', the ease factor is unchanged and
\* interval' = max(4, floor(interval * 1.0 * ease)), never below 4; a new
\* note (ease 2.5, interval 1) gets interval 4 and status reviewing.
C9_GoodGraduates ==
    (Reviewed /\ last.q = "good")
    => /\ RdAfter.easeFactor = RdBefore.easeFactor
       /\ RdAfter.interval =
              Max(4, (RdBefore.interval * 10 * RdBefore.easeFactor) \div 10000000)
       /\ RdAfter.interval >= 4
       /\ (RdBefore.status = "new" /\ RdBefore.reviewCount = 0
              /\ RdBefore.easeFactor = 2500000 /\ RdBefore.interval = 1)
          => (RdAfter.interval = 4 /\ RdAfter.status = "reviewing")
       /\ RdStored = RdAfter

\* the 'good' review of a new note: interval 4, status reviewing
C9_Witness ==
    /\ Reviewed
    /\ last.q = "good"
    /\ RdBefore.status = "new"
    /\ RdBefore.reviewCount = 0
    /\ RdBefore.easeFactor = 2500000
    /\ RdBefore.interval = 1
    /\ RdAfter.interval = 4
    /\ RdAfter.status = "reviewing"

\* C10: the status written by reviewNote is learning when quality is
\* 'again', otherwise mastered when the review count before this review is
\* at least 20, otherwise reviewing; the prior status has no influence.
C10_StatusFromQualityAndPriorCount ==
    Reviewed
    => /\ RdAfter.status =
              (IF last.q = "again" THEN "learning"
               ELSE IF RdBefore.reviewCount >= 20 THEN "mastered"
               ELSE "reviewing")
       /\ RdStored.status = RdAfter.status

\* a learning note with 20 earlier reviews becomes mastered on a 'hard' review
C10_Witness ==
    /\ Reviewed
    /\ last.q = "hard"
    /\ RdBefore.reviewCount = 20
    /\ RdBefore.status = "learning"
    /\ RdAfter.status = "mastered"


\* the successful reviews a note has had so far
SuccessesOf(id) == IF id \in DOMAIN successes THEN successes[id] ELSE 0

\* C11 as claimed: a note made by createNote is never mastered while it has
\* had fewer than 21 successful (non-'again') reviews.
C11_MasteredAfter21Successes ==
    \A i \in 1..Len(notes) :
        notes[i].reviewData.status = "mastered" => SuccessesOf(notes[i].id) >= 21

\* C11, amended: the reviews counted are all of them, 'again' included.  A
\* note made by createNote is never mastered while it has had fewer than 21
\* reviews, and from its 21st review on it is mastered whenever its latest
\* review was not 'again'.
C11_MasteredFrom21stReview ==
    \A i \in 1..Len(notes) :
        LET rd == notes[i].reviewData
        IN  /\ rd.status = "mastered" => rd.reviewCount >= 21
            /\ (rd.reviewCount >= 21 /\ rd.correctStreak > 0)
                   => rd.status = "mastered"

C11_Witness ==
    \E i \in 1..Len(notes) :
        /\ notes[i].reviewData.status = "mastered"
        /\ notes[i].reviewData.reviewCount = 21
        /\ SuccessesOf(notes[i].id) = 21

\* C13: after any sequence of reviewNote calls a note's interval is an
\* integer of at least 1, in the in-memory note and in the durable record.
C13_IntervalAtLeastOne ==
    /\ \A i \in 1..Len(notes) :
           /\ notes[i].reviewData.interval \in Int
           /\ notes[i].reviewData.interval >= 1
    /\ \A k \in DOMAIN dbNotes :
           /\ dbNotes[k].reviewData.interval \in Int
           /\ dbNotes[k].reviewData.interval >= 1

\* a 'hard' review of a one-day interval, where 1 * 0.8 rounds down to 0, and
\* an 'easy' review at the lowest ease factor, where 1 * 1.3 * 1.3 rounds to 1
C13_Witness ==
    /\ Reviewed
    /\ RdBefore.interval = 1
    /\ RdAfter.interval = 1
    /\ \/ last.q = "hard"
       \/ last.q = "easy" /\ RdBefore.easeFactor = 1300000

\* the command that completed last changed the note it names, or made it
MutatedNote ==
    /\ last.op \in {"createNote", "updateNote", "collectNote", "reviewNote"}
    /\ HasNote(notes, last.id)
    /\ \/ ~HasNote(Pre.notes, last.id)
       \/ NoteAt(notes, last.id) # NoteAt(Pre.notes, last.id)

\* C12 as claimed: in every state reached by createNote, updateNote,
\* collectNote and reviewNote, a note's nextReview is the timestamp of the last
\* command that mutated that note plus interval days.
C12_NextReviewFromLastMutation ==
    MutatedNote
    => NoteAt(notes, last.id).reviewData.nextReview
           = Date(last.at + NoteAt(notes, last.id).reviewData.interval)

\* the timestamp of the last createNote or reviewNote of a note
ScheduledAt(note) ==
    IF note.reviewData.lastReviewed = NULL THEN note.createdAt.t
    ELSE note.reviewData.lastReviewed.t

\* C12, amended: in every state reached by createNote, updateNote (of title,
\* content or tags), collectNote and reviewNote, a note's nextReview is the
\* timestamp of the last createNote or reviewNote of that note plus interval
\* days; updateNote and collectNote leave the review data as it was.
C12_NextReviewFromLastSchedule ==
    /\ \A i \in 1..Len(notes) :
           notes[i].reviewData.nextReview
               = Date(ScheduledAt(notes[i]) + notes[i].reviewData.interval)
    /\ \A k \in DOMAIN dbNotes :
           dbNotes[k].reviewData.nextReview
               = Date(ScheduledAt(dbNotes[k]) + dbNotes[k].reviewData.interval)
    /\ (last.op \in {"updateNote", "collectNote"} /\ HasNote(Pre.notes, last.id))
           => NoteAt(notes, last.id).reviewData
                  = NoteAt(Pre.notes, last.id).reviewData

\* a note reviewed on one day with a grown interval and edited on a later day
C12_Witness ==
    /\ AfterCommand("updateNote")
    /\ MutatedNote
    /\ NoteAt(notes, last.id).reviewData.reviewCount >= 1
    /\ NoteAt(notes, last.id).reviewData.interval > 1
    /\ last.at > NoteAt(notes, last.id).reviewData.lastReviewed.t

\* the point in time a stored timestamp denotes, as a Date or as its ISO string
Instant(v) == v.t

DueIds(W, now) ==
    {note.id : note \in SeqToSet(Storage_getNotesDueForReview(W.dbNotes, now))}

\* C14: getNotesDueForReview returns exactly the stored notes whose
\* reviewData.nextReview is at or before the current time and whose status is
\* not 'mastered'; a note just reviewed is not returned until its interval
\* has elapsed.
C14_DueExactly ==
    /\ DueIds(Cur, clock)
           = {k \in DOMAIN dbNotes :
                 /\ Instant(dbNotes[k].reviewData.nextReview) <= clock
                 /\ dbNotes[k].reviewData.status # "mastered"}
    /\ (Reviewed /\ clock < last.at + RdAfter.interval)
           => last.id \notin DueIds(Cur, clock)

\* importData has just succeeded on the document exportData made of the
\* state before it
RoundTrip ==
    /\ AfterCommand("importData")
    /\ error = "none"
    /\ exported # NULL
    /\ \A f \in DOMAIN Snapshot(Pre) : exported[f] = Snapshot(Pre)[f]

\* C17: importData(exportData()) leaves the store with the same notes, links
\* and tags, each with the same field values, timestamps included, so that
\* the same notes are due for review afterwards.
C17_RoundTripRestores ==
    RoundTrip
    => /\ dbNotes = Pre.dbNotes
       /\ dbLinks = Pre.dbLinks
       /\ dbTags = Pre.dbTags
       /\ \A now \in 0..MaxClock : DueIds(Cur, now) = DueIds(Pre, now)

\* the non-empty whitespace-delimited tokens of a string begin where a
\* character that is not whitespace follows whitespace or starts the string
TokenStarts(s) ==
    {i \in 1..Len(s) : ~IsSpace(s[i]) /\ (i = 1 \/ IsSpace(s[i - 1]))}

\* C15: after createNote and after updateNote, a change to empty content
\* included, a note's wordCount is the number of non-empty
\* whitespace-delimited tokens of its current content.
C15_WordCountOfCurrentContent ==
    /\ \A i \in 1..Len(notes) :
           notes[i].metadata.wordCount = Cardinality(TokenStarts(notes[i].content))
    /\ \A k \in DOMAIN dbNotes :
           dbNotes[k].metadata.wordCount
               = Cardinality(TokenStarts(dbNotes[k].content))

\* the token of s that starts at i
RECURSIVE TokenFrom(_, _)
TokenFrom(s, i) ==
    IF i > Len(s) \/ IsSpace(s[i]) THEN <<>>
    ELSE <<s[i]>> \o TokenFrom(s, i + 1)

\* the lower-cased terms of a query, cut at any whitespace
TermsOf(query) ==
    {TokenFrom(ToLowerCase(query), i) : i \in TokenStarts(ToLowerCase(query))}

\* C16: searchNotes yields no results for an empty or whitespace-only query;
\* otherwise it yields exactly the notes for which every lower-cased term,
\* from splitting the query on any whitespace and dropping empty tokens, is a
\* substring of the lower-cased "title content tags-joined-by-spaces".
C16_SearchMatchesEveryTerm ==
    AfterCommand("searchNotes")
    => {note.id : note \in SeqToSet(searchResults)}
           = {k \in DOMAIN dbNotes :
                 /\ TermsOf(last.query) # {}
                 /\ \A term \in TermsOf(last.query) :
                        Includes(ToLowerCase(dbNotes[k].title \o <<" ">>
                                     \o dbNotes[k].content \o <<" ">>
                                     \o JoinSpace(dbNotes[k].tags)), term)}

HasDuplicateId(recs) ==
    \E i \in 1..Len(recs), j \in 1..Len(recs) : i < j /\ recs[i].id = recs[j].id

DocHasDuplicateId(doc) ==
    \/ HasDuplicateId(doc.notes)
    \/ HasDuplicateId(doc.links)
    \/ HasDuplicateId(doc.tags)
    \/ HasDuplicateId(doc.quests)
    \/ HasDuplicateId(doc.rooms)

\* the records of a store are exactly those of a list
HoldsExactly(store, recs) ==
    /\ DOMAIN store = {recs[i].id : i \in 1..Len(recs)}
    /\ \A i \in 1..Len(recs) : store[recs[i].id] = recs[i]

\* an importData that ran with the storage handle present
Imported == AfterCommand("importData") /\ Pre.dbOpen

\* C18: importData first clears every collection and then inserts the
\* document's records with create semantics: when the document holds two
\* records of one kind with the same id the import fails with the duplicate
\* id error and neither record is silently kept; without duplicates the
\* stores hold exactly the document's records.
C18_ImportClearsThenAdds ==
    Imported
    => IF DocHasDuplicateId(last.doc)
       THEN /\ error = CONSTRAINT_ERROR
            /\ dbNotes = EmptyStore
            /\ dbLinks = EmptyStore
            /\ dbTags = EmptyStore
            /\ dbQuests = EmptyStore
            /\ dbRooms = EmptyStore
       ELSE /\ error = "none"
            /\ HoldsExactly(dbNotes, last.doc.notes)
            /\ HoldsExactly(dbLinks, last.doc.links)
            /\ HoldsExactly(dbTags, last.doc.tags)
            /\ HoldsExactly(dbQuests, last.doc.quests)
            /\ HoldsExactly(dbRooms, last.doc.rooms)

\* a document with a duplicate id is imported over a database that holds
\* records, and the import fails
C18_Witness ==
    /\ Imported
    /\ DocHasDuplicateId(last.doc)
    /\ Pre.dbNotes # EmptyStore
    /\ error = CONSTRAINT_ERROR

\* C19: whenever initializePKM fails, at the first start or at the reload
\* after an import, the in-memory state afterwards is the safe default:
\* notes, links, tags and quests empty, stats and settings the defaults.
C19_FailedInitializeLeavesDefaults ==
    (last.op \in {"initializePKM", "importData"} /\ last.q = "fails"
        /\ error = "none")
    => /\ notes = <<>>
       /\ links = <<>>
       /\ tags = <<>>
       /\ quests = <<>>
       /\ stats = defaultStats
       /\ settings = defaultSettings

\* the durable state
Durable(W) ==
    <<W.dbNotes, W.dbLinks, W.dbTags, W.dbQuests, W.dbRooms, W.dbStats,
      W.dbSettings>>

\* a data operation of the storage object has just completed
StorageCalled == last.q = "storage"

\* C20: while the storage handle is absent (before init, after a failed init,
\* after close) every storage data operation fails with an error and changes
\* no durable state; operations succeed again only after a later init has
\* succeeded.
C20_NoHandleNoOperation ==
    /\ (StorageCalled /\ ~Pre.dbOpen)
           => /\ error = NOT_INITIALIZED
              /\ Durable(Cur) = Durable(Pre)
    /\ (StorageCalled /\ error # NOT_INITIALIZED) => Pre.dbOpen
    /\ (dbOpen /\ ~Pre.dbOpen) => (AfterCommand("init") /\ last.q = "opens")
    /\ (AfterCommand("init") /\ last.q = "fails") => dbOpen = Pre.dbOpen
    /\ AfterCommand("close") => ~dbOpen

\* a write is attempted on a database that holds records, after close
C20_Witness ==
    /\ StorageCalled
    /\ last.op \in StorageWrites
    /\ ~Pre.dbOpen
    /\ Pre.dbNotes # EmptyStore
    /\ error = NOT_INITIALIZED

\* the in-memory collections and the stats singleton
Memory(W) == <<W.notes, W.links, W.tags, W.stats>>

\* the last command was an update or delete on an id that named no record,
\* in memory or in the database
UnknownId ==
    \/ /\ last.op \in {"updateNote", "deleteNote"}
       /\ ~HasNote(Pre.notes, last.id)
       /\ last.id \notin DOMAIN Pre.dbNotes
    \/ /\ last.op = "updateTag"
       /\ ~HasNote(Pre.tags, last.id)
       /\ last.id \notin DOMAIN Pre.dbTags
    \/ /\ last.op = "deleteLink"
       /\ ~HasNote(Pre.links, last.id)
       /\ last.id \notin DOMAIN Pre.dbLinks

\* C21: updateNote, updateTag, deleteNote or deleteLink on an id that names
\* no existing record raises no error and leaves notes, links, tags and the
\* stats singleton unchanged, in memory and in the durable store.
C21_UnknownIdIsNoOp ==
    UnknownId => /\ error = "none"
                 /\ Memory(Cur) = Memory(Pre)
                 /\ Durable(Cur) = Durable(Pre)

\* the same for the three commands that look the id up before acting
C21_LookupCommandsAreNoOps ==
    (UnknownId /\ last.op # "deleteNote")
        => /\ error = "none"
           /\ Memory(Cur) = Memory(Pre)
           /\ Durable(Cur) = Durable(Pre)

\* C22: after every command that has completed, normally or with an error,
\* the in-memory notes, links and tags hold exactly the records of the
\* durable store.
C22_MemoryMirrorsDurable ==
    /\ HoldsExactly(dbNotes, notes)
    /\ HoldsExactly(dbLinks, links)
    /\ HoldsExactly(dbTags, tags)

\* C23: every updateNote(id, updates) on an existing note, whatever updates
\* carries, leaves the note with the id it had and the durable store with
\* exactly one record for it (no record under another key appears), and no
\* two notes of the collection ever share an id.
C23_IdImmutableAndUnique ==
    /\ (AfterCommand("updateNote") /\ HasNote(Pre.notes, last.id))
           => /\ notes[FindIndex(Pre.notes, last.id)].id = last.id
              /\ last.id \in DOMAIN dbNotes
              /\ dbNotes[last.id].id = last.id
              /\ DOMAIN dbNotes = DOMAIN Pre.dbNotes
    /\ ~HasDuplicateId(notes)

\* the entry a completed createNote or reviewNote logs
OwnEntry ==
    [id |-> last.at,
     type |-> IF AfterCommand("createNote") THEN "note_created"
              ELSE "note_reviewed",
     timestamp |-> Date(last.at),
     description |-> NoteAt(notes, last.id).title,
     points |-> IF AfterCommand("createNote") THEN 10 ELSE Points(last.q)]

\* C24: from the default stats, over createNote and reviewNote commands run
\* one at a time, recentActivity holds at most 10 entries, newest first, and
\* each command puts its own entry first, followed by the entries it found,
\* of which the oldest is dropped when 10 were present.
C24_RecentActivityCapped ==
    LET activity == stats.recentActivity
        before == Pre.stats.recentActivity
    IN  /\ Len(activity) <= 10
        /\ \A i \in 1..Len(activity), j \in 1..Len(activity) :
               i < j => activity[i].timestamp.t >= activity[j].timestamp.t
        /\ last.op \in {"createNote", "reviewNote"}
               => /\ activity[1] = OwnEntry
                  /\ Len(activity) = Min(10, Len(before) + 1)
                  /\ \A i \in 2..Len(activity) : activity[i] = before[i - 1]

\* an entry is logged while 10 are present: two notes were created and nine
\* reviews followed, and the entry of the first createNote has been dropped
C24_Witness ==
    /\ AfterCommand("reviewNote")
    /\ Len(Pre.stats.recentActivity) = 10
    /\ Pre.stats.recentActivity[10].type = "note_created"
    /\ Len(stats.recentActivity) = 10
    /\ stats.recentActivity[10].type = "note_created"
    /\ stats.recentActivity[10].timestamp.t > 0

\* the link that the last command was asked to delete
DeletedLink == NoteAt(Pre.links, last.id)

\* C25: deleteLink(id) of an existing link (A, B) removes the link from the
\* collection and the store, leaves B out of A's metadata.links and A out of
\* B's metadata.backlinks, and lowers totalLinks by 1 but not below 0;
\* deleteLink of an unknown id changes nothing.
C25_DeleteLinkUnlinks ==
    /\ (AfterCommand("deleteLink") /\ HasNote(Pre.links, last.id))
           => /\ ~HasNote(links, last.id)
              /\ last.id \notin DOMAIN dbLinks
              /\ HasNote(notes, DeletedLink.sourceId)
                     => ~Contains(NoteAt(notes, DeletedLink.sourceId).metadata.links,
                                  DeletedLink.targetId)
              /\ HasNote(notes, DeletedLink.targetId)
                     => ~Contains(NoteAt(notes, DeletedLink.targetId).metadata.backlinks,
                                  DeletedLink.sourceId)
              /\ stats.totalLinks = Max(0, Pre.stats.totalLinks - 1)
    /\ (AfterCommand("deleteLink") /\ ~HasNote(Pre.links, last.id))
           => /\ error = "none"
              /\ Memory(Cur) = Memory(Pre)
              /\ Durable(Cur) = Durable(Pre)

\* what deleteLink does achieve: the link record and the count
C25_DeleteLinkRemovesRecord ==
    /\ (AfterCommand("deleteLink") /\ HasNote(Pre.links, last.id))
           => /\ ~HasNote(links, last.id)
              /\ last.id \notin DOMAIN dbLinks
              /\ stats.totalLinks = Max(0, Pre.stats.totalLinks - 1)
    /\ (AfterCommand("deleteLink") /\ ~HasNote(Pre.links, last.id))
           => /\ error = "none"
              /\ Memory(Cur) = Memory(Pre)
              /\ Durable(Cur) = Durable(Pre)

\* C26: two createLink calls in flight at once can both complete, with both
\* links stored, while totalLinks has grown by 1 only.  Whenever nothing is in
\* flight every link that was made is stored, in memory and in the database,
\* the stats in memory are the stored ones, and totalLinks counts at least one
\* and at most all of the links made; C26_Witness is the lost update.
C26_CompletedLinksStored ==
    Quiescent
        => /\ Len(links) = nextLinkId - 1
           /\ HoldsExactly(dbLinks, links)
           /\ links # <<>> => dbStats.totalLinks = stats.totalLinks
           /\ stats.totalLinks <= Len(links)
           /\ links # <<>> => stats.totalLinks >= 1

\* the second of two createLink calls between the two notes has returned:
\* both links are stored, nothing is in flight, and totalLinks is 1
C26_Witness ==
    /\ Quiescent
    /\ AfterCommand("createLink")
    /\ last.pc = "done"
    /\ Len(Pre.notes) = 2
    /\ Len(links) = 2
    /\ \A i \in 1..2 : /\ HasNote(notes, links[i].sourceId)
                       /\ HasNote(notes, links[i].targetId)
                       /\ links[i].sourceId # links[i].targetId
    /\ DOMAIN dbLinks = {links[1].id, links[2].id}
    /\ stats.totalLinks = 1
    /\ dbStats.totalLinks = 1

\* averageReviewAccuracy is the mean of the accuracies of the reviews so far
AverageIsMean ==
    LET average == stats.averageReviewAccuracy
    IN  IF ReviewsDone = 0 THEN average.num = 0
        ELSE average.num * 10 * ReviewsDone = AccuracySum * average.den

\* C27: after any sequence of createNote and reviewNote commands run one at a
\* time from the default stats, averageReviewAccuracy is the arithmetic mean
\* of the accuracy contributions (again 0, hard 0.5, good 0.8, easy 1.0) of
\* all reviews so far, also after more than 10 activities have been logged.
C27_AverageIsRunningMean == AverageIsMean

\* the mean is exact as long as no entry of a review has left recentActivity
C27_MeanWhileReviewsLogged ==
    ReviewedCount(stats.recentActivity) = ReviewsDone => AverageIsMean

\* every effect of the createLink that ran last is present
LinkFullyMade ==
    /\ \E i \in 1..Len(links) :
           /\ links[i].sourceId = last.id
           /\ links[i].targetId = last.id2
           /\ links[i].id \notin DOMAIN Pre.dbLinks
           /\ links[i].id \in DOMAIN dbLinks
    /\ HasNote(notes, last.id)
           => Contains(NoteAt(notes, last.id).metadata.links, last.id2)
    /\ HasNote(notes, last.id2)
           => Contains(NoteAt(notes, last.id2).metadata.backlinks, last.id)
    /\ stats.totalLinks = Pre.stats.totalLinks + 1

\* no effect of the createLink that ran last is present
LinkNotMade ==
    /\ Memory(Cur) = Memory(Pre)
    /\ Durable(Cur) = Durable(Pre)

\* C28: when a durable write of createLink fails after the link record was
\* persisted (the update of an endpoint note or of the stats), the state
\* after the failed command holds either all effects of the createLink or
\* none of them.
C28_CreateLinkAllOrNothing ==
    (AfterCommand("createLink") /\ error = WRITE_ERROR)
        => (LinkFullyMade \/ LinkNotMade)

\* the metadata of the note that the last updateNote found, before and after
MetadataBefore == Pre.notes[FindIndex(Pre.notes, last.id)].metadata
MetadataAfter == notes[FindIndex(Pre.notes, last.id)].metadata

C30_DeletedNoteStaysDeleted ==
    Quiescent
        => /\ HoldsExactly(dbNotes, notes)
           /\ \A id \in Deleted : ~HasNote(notes, id) /\ id \notin DOMAIN dbNotes

\* in memory, a note whose deleteNote has completed is absent
C30_DeletedNoteLeavesMemory ==
    Quiescent => \A id \in Deleted : ~HasNote(notes, id)

====
